---- MODULE Spec2Model ----
(***************************************************************************)
(* A model of the meeting-minutes AI service (src/ai-service).             *)
(*                                                                         *)
(*   - the provider gateway of each service module: _generate_with_llm and *)
(*     _generate_with_gemini of services/clean.py, services/diarization.py *)
(*     and services/summarization.py, one backend call per step;           *)
(*   - the task functions clean_transcript, diarize, summarize and         *)
(*     extract_actions_and_decisions, each a whole call;                   *)
(*   - the /process-full handler of main.py with its two worker tasks.     *)
(*                                                                         *)
(* A backend is an oracle: every call draws its outcome from the outcome   *)
(* classes the code tells apart.                                           *)
(***************************************************************************)
EXTENDS Integers, Sequences, FiniteSets, TLC

(***************************************************************************)
(* Bounds of the model.                                                    *)
(***************************************************************************)
\* models that genai.list_models() can report beyond the hard-coded names
MaxListed == 1
\* generate invocations followed in one process lifetime
MaxInvocations == 2
\* task function calls followed in one process lifetime
MaxCalls == 2
\* /process-full requests followed
MaxRequests == 1

(***************************************************************************)
(* Names                                                                   *)
(***************************************************************************)
None == "None"

Modules == {"clean", "diarization", "summarization"}

\* model="gpt-4o-mini", the one model of the primary slot
OpenaiModel == "gpt-4o-mini"

\* the hard-coded model_names of _generate_with_gemini, per module
model_names(mod) ==
    IF mod = "summarization"
    THEN <<"gemini-1.5-flash-latest", "gemini-1.5-flash", "gemini-pro",
           "gemini-1.0-pro", "gemini-1.5-flash-8b">>
    ELSE <<"gemini-1.5-flash-latest", "gemini-1.5-flash", "gemini-pro",
           "gemini-1.0-pro">>

\* what genai.list_models() may report (model.name without 'models/')
ListedNames == <<"listed-1", "listed-2", "listed-3">>
ListedModels == {ListedNames[i] : i \in 1..MaxListed}
\* the order in which a listing is iterated
ListingSeq(S) == SelectSeq([i \in 1..MaxListed |-> ListedNames[i]], LAMBDA m : m \in S)

SeqRange(q) == {q[i] : i \in 1..Len(q)}

(***************************************************************************)
(* Backend outcomes.  A call returns text ("ok") or fails; a failure is    *)
(* named by the class its exception type and message put it in.            *)
(*   auth       AuthenticationError / PermissionDeniedError, or a message  *)
(*              with "api key", "authentication", "401", "403", ...        *)
(*   keyerr     Gemini: message with "api key" or "authentication"         *)
(*   authcode   Gemini: message with "401" or "403" and no such words      *)
(*   quota      429, "quota", "insufficient_quota"                         *)
(*   notfound   404, "not found" (for OpenAI: NotFoundError, an APIError)  *)
(*   transient  timeouts, 5xx, connection errors (for OpenAI: an APIError) *)
(*   unknown    any other exception                                        *)
(***************************************************************************)
OpenaiFailures == {"auth", "quota", "notfound", "transient", "unknown"}
GeminiFailures == {"keyerr", "authcode", "quota", "notfound", "transient", "unknown"}

\* What the returned text looks like to the task function that reads it.
TextKinds(mod) ==
    CASE mod = "clean" -> {"empty", "fits", "fence_only", "toolong"}
      [] mod = "diarization" -> {"empty", "malformed", "not_a_list", "no_segments", "segments"}
      [] mod = "summarization" ->
            {"empty", "truncated_fixable", "truncated_broken", "invalid", "full", "partial"}

Outcomes(mod, failures) ==
    {[k |-> "ok", text |-> t] : t \in TextKinds(mod)}
        \cup {[k |-> f, text |-> "-"] : f \in failures}

(***************************************************************************)
(* State                                                                   *)
(***************************************************************************)
VARIABLES
    openai_enabled,          \* OpenAI is not None and settings.openai_api_key
    gemini_key,              \* a GOOGLE_API_KEY is configured
    transformers_installed,  \* AutoTokenizer and AutoModelForCausalLM were imported
    gemini_client,           \* the module global _gemini_client of each module
    gw,                      \* the generate invocation in progress
    ninv,                    \* generate invocations started so far
    task,                    \* the latest task function call and how it ended
    task_val,                \* the value it returned or the exception it raised
    ntask,                   \* task function calls made so far
    stage,                   \* where the /process-full request stands
    stages,                  \* the stages it went through
    raw_text, cleaned, sentences,       \* locals of process_full
    sumTask, diaTask,                   \* the two tasks that gather awaits
    structured_summary, segments,       \* their results after the handler's checks
    extract_call,            \* the call of extract_actions_and_decisions
    extracted,               \* actions, decisions
    response,                \* the HTTP response
    backend_ok,              \* some backend call of this request returned text
    nreq,                    \* requests received so far
    probe,                   \* a function or endpoint tried on its own, and its input
    probe_out                \* what it gave

envvars == <<openai_enabled, gemini_key, transformers_installed>>
probevars == <<probe, probe_out>>
taskvars == <<task, task_val, ntask>>
pipevars ==
    <<stage, stages, raw_text, cleaned, sentences, sumTask, diaTask,
      structured_summary, segments, extract_call, extracted, response,
      backend_ok, nreq>>

(***************************************************************************)
(* The provider gateway.  g is the invocation's local state:               *)
(*   pc     where it stands    mod    the module whose code runs           *)
(*   wrap   how _generate_with_llm treats an exception of the Gemini slot  *)
(*   names  model_names after the listing    idx   position in the loop    *)
(*   avail, pidx   the late listing of summarization.py and the position   *)
(*   calls  the backend calls made, in order, as <<slot, model>>           *)
(*   last   outcome class of the latest call   prim   of the OpenAI call   *)
(*   entries  calls of _generate_with_gemini made by _generate_with_llm    *)
(*   stale  the memoized model that answered 404 and was cleared           *)
(*   unclassified  some call failed with an error of no known class        *)
(*   res    the result: text returned or exception raised                  *)
(* and s = [g, memo] pairs it with the module's _gemini_client.            *)
(***************************************************************************)
NoRes == [kind |-> "none", val |-> "-"]
TextRes(t) == [kind |-> "text", val |-> t]
RaiseRes(e) == [kind |-> "raise", val |-> e]

IdleGw ==
    [pc |-> "idle", mod |-> "clean", wrap |-> "none", names |-> <<>>, idx |-> 0,
     avail |-> <<>>, pidx |-> 0, calls |-> <<>>, last |-> "none", prim |-> "none",
     entries |-> 0, stale |-> None, unclassified |-> FALSE, res |-> NoRes]

\* entry of _generate_with_llm: the primary slot is tried only when configured
GStart(mod, enabled) ==
    [IdleGw EXCEPT !.mod = mod,
                   !.pc = IF enabled THEN "openai" ELSE "gemini",
                   !.wrap = IF enabled THEN "none" ELSE "gemini",
                   !.entries = IF enabled THEN 0 ELSE 1]

Called(g, slot, model, k) ==
    [g EXCEPT !.calls = Append(@, <<slot, model>>), !.last = k,
              !.unclassified = @ \/ k = "unknown"]

Return(g, t) == [g EXCEPT !.pc = "done", !.res = TextRes(t)]

\* An exception leaving _generate_with_gemini: re-raised as it is on the
\* is_auth_error path, turned into a RuntimeError on the two wrapped paths.
Raise(g, e) ==
    [g EXCEPT !.pc = "done",
              !.res = RaiseRes(IF g.wrap = "none" THEN e ELSE "RuntimeError")]

\* a variant of is_auth_error that leaves "429" and "quota" out
IsAuthError_NoQuota(k) == k \in {"auth"}

\* is_auth_error of _generate_with_llm: auth words, 401, 403, and also 429/quota
IsAuthError(k) == k \in {"auth", "quota"}
\* isinstance(e, APIError) for an error that is_auth_error did not take
IsAPIError(k) == k \in {"notfound", "transient"}

\* the OpenAI call of _generate_with_llm and its except clause
OpenaiSucc(s) ==
    {LET g1 == [Called(s.g, "openai", OpenaiModel, o.k) EXCEPT !.prim = o.k]
         g2 == CASE o.k = "ok" -> Return(g1, o.text)
                 [] IsAuthError(o.k) ->
                       [g1 EXCEPT !.pc = "gemini", !.wrap = "none", !.entries = @ + 1]
                 [] IsAPIError(o.k) ->
                       [g1 EXCEPT !.pc = "gemini", !.wrap = "both", !.entries = @ + 1]
                 [] OTHER -> [g1 EXCEPT !.pc = "done", !.res = RaiseRes("Other")]
     IN  [g |-> g2, memo |-> s.memo]
     : o \in Outcomes(s.g.mod, OpenaiFailures)}

\* entry of _generate_with_gemini: the key, the listing, the handle's check
GeminiEntrySucc(s, haskey) ==
    IF ~haskey
    THEN {[g |-> Raise(s.g, "RuntimeError"), memo |-> s.memo]}
    ELSE {[g |-> [s.g EXCEPT !.names = model_names(s.g.mod) \o ListingSeq(L),
                             !.idx = 1,
                             !.pc = IF s.memo # None THEN "memo" ELSE "loop"],
           memo |-> s.memo] : L \in SUBSET ListedModels}

\* the memoized handle fails on a key error
MemoKeyError(k) == k \in {"keyerr", "authcode"}

\* a variant of the handle's except clause that forgets the handle on every
\* failure
MemoSucc_ForgetsHandle(s) ==
    {LET g1 == Called(s.g, "gemini", s.memo, o.k)
     IN  IF o.k = "ok" THEN [g |-> Return(g1, o.text), memo |-> s.memo]
         ELSE [g |-> Raise(g1, "RuntimeError"), memo |-> None]
     : o \in Outcomes(s.g.mod, GeminiFailures)}

\* if _gemini_client is not None: the call through the memoized handle
MemoSucc(s) ==
    IF s.memo = None
    THEN \* the handle was cleared after the check: AttributeError, not a 404
         {[g |-> Raise(s.g, "RuntimeError"), memo |-> None]}
    ELSE {LET g1 == Called(s.g, "gemini", s.memo, o.k)
          IN  CASE o.k = "ok" -> [g |-> Return(g1, o.text), memo |-> s.memo]
                [] o.k = "notfound" ->
                      [g |-> [g1 EXCEPT !.pc = "loop", !.stale = s.memo], memo |-> None]
                [] MemoKeyError(o.k) -> [g |-> Raise(g1, "ValueError"), memo |-> s.memo]
                [] OTHER -> [g |-> Raise(g1, "RuntimeError"), memo |-> s.memo]
          : o \in Outcomes(s.g.mod, GeminiFailures)}

\* the loop's key-error test: summarization.py also looks for 401 and 403
LoopKeyError(mod, k) ==
    IF mod = "summarization" THEN k \in {"keyerr", "authcode"} ELSE k = "keyerr"

\* a variant of continue that gives up after the first failing model
LoopContinue_GiveUp(g) == Raise(g, "RuntimeError")

\* continue: the next model, or the end of the loop
LoopContinue(g) ==
    IF g.idx < Len(g.names) THEN [g EXCEPT !.idx = @ + 1]
    ELSE IF g.mod = "summarization" THEN [g EXCEPT !.pc = "post"]
    ELSE Raise(g, "RuntimeError")

\* for model_name in model_names: one call and its except clause
LoopSucc(s) ==
    {LET m == s.g.names[s.g.idx]
         g1 == Called(s.g, "gemini", m, o.k)
     IN  CASE o.k = "ok" -> [g |-> Return(g1, o.text), memo |-> m]
           [] o.k = "notfound" -> [g |-> LoopContinue(g1), memo |-> s.memo]
           [] LoopKeyError(s.g.mod, o.k) ->
                 IF s.g.mod = "summarization"
                 THEN [g |-> [g1 EXCEPT !.pc = "retry"], memo |-> s.memo]
                 ELSE [g |-> Raise(g1, "ValueError"), memo |-> s.memo]
                [] OTHER -> [g |-> LoopContinue(g1), memo |-> s.memo]
     : o \in Outcomes(s.g.mod, GeminiFailures)}

\* summarization.py: "API key error - try to reconfigure and retry once"
RetrySucc(s) ==
    {LET m == s.g.names[s.g.idx]
         g1 == Called(s.g, "gemini", m, o.k)
     IN  IF o.k = "ok" THEN [g |-> Return(g1, o.text), memo |-> m]
         ELSE [g |-> Raise(g1, "ValueError"), memo |-> s.memo]
     : o \in Outcomes(s.g.mod, GeminiFailures)}

\* summarization.py, if last_error: a second listing; the models it adds
PostListSucc(s) ==
    {LET av == ListingSeq(L \ SeqRange(s.g.names))
     IN  IF av = <<>> THEN [g |-> Raise(s.g, "RuntimeError"), memo |-> s.memo]
         ELSE [g |-> [s.g EXCEPT !.pc = "postloop", !.avail = av, !.pidx = 1],
               memo |-> s.memo]
     : L \in SUBSET ListedModels}

\* ... and one call to a model of that listing; the enclosing
\* "except Exception: pass" swallows the key error raised inside
PostLoopSucc(s) ==
    {LET m == s.g.avail[s.g.pidx]
         g1 == Called(s.g, "gemini", m, o.k)
     IN  CASE o.k = "ok" -> [g |-> Return(g1, o.text), memo |-> m]
           [] o.k = "keyerr" -> [g |-> Raise(g1, "RuntimeError"), memo |-> s.memo]
           [] OTHER ->
                 IF s.g.pidx < Len(s.g.avail)
                 THEN [g |-> [g1 EXCEPT !.pidx = @ + 1], memo |-> s.memo]
                 ELSE [g |-> Raise(g1, "RuntimeError"), memo |-> s.memo]
     : o \in Outcomes(s.g.mod, GeminiFailures)}

\* one step of an invocation
GSucc(s, haskey) ==
    CASE s.g.pc = "openai" -> OpenaiSucc(s)
      [] s.g.pc = "gemini" -> GeminiEntrySucc(s, haskey)
      [] s.g.pc = "memo" -> MemoSucc(s)
      [] s.g.pc = "loop" -> LoopSucc(s)
      [] s.g.pc = "retry" -> RetrySucc(s)
      [] s.g.pc = "post" -> PostListSucc(s)
      [] s.g.pc = "postloop" -> PostLoopSucc(s)
      [] OTHER -> {}

(***************************************************************************)
(* A whole call of _generate_with_llm: the steps above, run to the end.    *)
(***************************************************************************)
RECURSIVE Closure(_, _)
Closure(S, haskey) ==
    LET live == {s \in S : s.g.pc # "done"}
    IN  IF live = {} THEN S
        ELSE Closure((S \ live) \cup UNION {GSucc(s, haskey) : s \in live}, haskey)

\* the results of one call: what it returns or raises, and the handle it leaves
_generate_with_llm(mod, memo, enabled, haskey) ==
    {[res |-> s.g.res, memo |-> s.memo]
        : s \in Closure({[g |-> GStart(mod, enabled), memo |-> memo]}, haskey)}

\* the values _gemini_client can have
Handles == {None} \cup SeqRange(model_names("summarization")) \cup ListedModels

\* the results of _generate_with_llm, worked out once for every module,
\* handle and configuration
GenerateResults ==
    [mod \in Modules, memo \in Handles, enabled \in BOOLEAN, haskey \in BOOLEAN |->
        _generate_with_llm(mod, memo, enabled, haskey)]

(***************************************************************************)
(* Texts.  A text is a sequence of tokens: a space, a line break, a full   *)
(* stop, or a piece of a word.  Pieces that stand side by side make one    *)
(* word ("um", "w" is the word "umw"), so that a word boundary (\b) lies    *)
(* only between a piece and a token that is none, or at an end of the      *)
(* text.  The empty sequence is the empty string.                          *)
(***************************************************************************)
MaxLen == 1

Tokens == {"um", "w", "."}

\* "HR will draft the remote work policy by October 15. Finance needs to
\* finalize the Q4 budget by October 20.", a word or a number to the token
ExampleTranscript ==
    <<"HR", " ", "will", " ", "draft", " ", "the", " ", "remote", " ", "work", " ",
      "policy", " ", "by", " ", "October", " ", "15", ".", " ",
      "Finance", " ", "needs", " ", "to", " ", "finalize", " ", "the", " ", "Q4", " ",
      "budget", " ", "by", " ", "October", " ", "20", ".">>

Texts == UNION {[1..n -> Tokens] : n \in 0..MaxLen}
\* a text of white space only
BlankText == <<" ">>

\* the texts of the requests to /process-full
RequestTexts == Texts \cup {ExampleTranscript, BlankText}

\* \s
IsSpace(tok) == tok \in {" ", "\n"}
\* [.!?], of which the full stop is the one that texts have here
IsStop(tok) == tok = "."
\* \w
IsWordTok(tok) == ~IsSpace(tok) /\ ~IsStop(tok)

Min(a, b) == IF a < b THEN a ELSE b
Max(a, b) == IF a > b THEN a ELSE b

(***************************************************************************)
(* The characters of a text.  A string is the text that tokens spell, one  *)
(* after the other.                                                        *)
(***************************************************************************)
\* s[i - 1] and s[i - 1:] of Python, for i from 1
At(s, i) == SubSeq(s, i, i)
From(s, i) == SubSeq(s, i, Len(s))

UpperChars == "ABCDEFGHIJKLMNOPQRSTUVWXYZ"
LowerChars == "abcdefghijklmnopqrstuvwxyz"
\* [A-Z], [a-z], \d, \s and \w of the characters that texts have
Uppers == {At(UpperChars, i) : i \in 1..26}
Lowers == {At(LowerChars, i) : i \in 1..26}
Digits == {"0", "1", "2", "3", "4", "5", "6", "7", "8", "9"}
Spaces == {" ", "\n"}
WordChars == Uppers \cup Lowers \cup Digits \cup {"_"}

\* the least number of a non-empty set of numbers
Least(S) == CHOOSE x \in S : \A y \in S : x <= y
Greatest(S) == CHOOSE x \in S : \A y \in S : y <= x

\* ''.join(parts[lo - 1:hi])
RECURSIVE Joined(_, _, _)
Joined(parts, lo, hi) ==
    IF lo > hi THEN ""
    ELSE IF lo = hi THEN parts[lo]
    ELSE Joined(parts, lo, (lo + hi) \div 2) \o Joined(parts, (lo + hi) \div 2 + 1, hi)

\* str.lower()
str_lower(s) ==
    Joined([j \in 1..Len(s) |->
               IF At(s, j) \in Uppers
               THEN At(LowerChars, CHOOSE i \in 1..26 : At(UpperChars, i) = At(s, j))
               ELSE At(s, j)],
           1, Len(s))

\* the last character of the longest run of characters of a class that
\* starts at i; i - 1 when the character at i is not of the class
RunEnd(s, i, class) ==
    LET others == {j \in i..Len(s) : At(s, j) \notin class}
    IN  IF others = {} THEN Max(Len(s), i - 1) ELSE Least(others) - 1

\* s[i - 1:].startswith(sub)
StartsAt(s, i, sub) ==
    i >= 1 /\ i + Len(sub) - 1 <= Len(s) /\ SubSeq(s, i, i + Len(sub) - 1) = sub

\* s.find(sub, i - 1) + 1: the first place from i on where sub starts, or 0
Find(s, sub, i) ==
    LET places == {j \in i..Len(s) : StartsAt(s, j, sub)}
    IN  IF places = {} THEN 0 ELSE Least(places)

\* str.strip() of a string
StrStrip(s) ==
    LET inked == {j \in 1..Len(s) : At(s, j) \notin Spaces}
    IN  IF inked = {} THEN ""
        ELSE SubSeq(s, Least(inked), CHOOSE x \in inked : \A y \in inked : y <= x)

\* re.sub(r'\s+', ' ', s)
StrCollapse(s) ==
    Joined([j \in 1..Len(s) |->
               IF At(s, j) \notin Spaces THEN At(s, j)
               ELSE IF j > 1 /\ At(s, j - 1) \in Spaces THEN ""
               ELSE " "],
           1, Len(s))

\* re.split(r'[.!?]+', text), from the character i on
RECURSIVE StrSplitStops(_, _)
StrSplitStops(s, i) ==
    LET stops == {j \in i..Len(s) : At(s, j) \in {".", "!", "?"}}
    IN  IF stops = {} THEN <<From(s, i)>>
        ELSE <<SubSeq(s, i, Least(stops) - 1)>>
                \o StrSplitStops(s, RunEnd(s, Least(stops), {".", "!", "?"}) + 1)

\* str.lower() and str.capitalize() of a piece
Lower(tok) == str_lower(tok)
Cap(tok) ==
    IF tok = "" THEN ""
    ELSE (IF At(tok, 1) \in Lowers
          THEN At(UpperChars, CHOOSE i \in 1..26 : At(LowerChars, i) = At(tok, 1))
          ELSE At(tok, 1)) \o str_lower(From(tok, 2))

\* filler_words, in the order of the list: the hesitation words ("uh",
\* "um", ...) stand before the phrases ("you know", "kind of", ...)
filler_words == << <<"um">>, <<"you", " ", "know">> >>

\* re.sub(r'\s+', ' ', text)
RECURSIVE CollapseSpaces(_)
CollapseSpaces(text) ==
    IF text = <<>> THEN <<>>
    ELSE IF ~IsSpace(Head(text)) THEN <<Head(text)>> \o CollapseSpaces(Tail(text))
    ELSE IF Len(text) > 1 /\ IsSpace(text[2]) THEN CollapseSpaces(Tail(text))
    ELSE <<" ">> \o CollapseSpaces(Tail(text))

\* str.strip()
RECURSIVE LStrip(_)
LStrip(text) ==
    IF text # <<>> /\ IsSpace(Head(text)) THEN LStrip(Tail(text)) ELSE text
RECURSIVE RStrip(_)
RStrip(text) ==
    IF text # <<>> /\ IsSpace(text[Len(text)])
    THEN RStrip(SubSeq(text, 1, Len(text) - 1)) ELSE text
Strip(text) == RStrip(LStrip(text))

\* a variant of the pattern without its two \b
MatchesAt_Substring(text, filler, i) ==
    /\ i + Len(filler) - 1 <= Len(text)
    /\ \A k \in 1..Len(filler) : Lower(text[i + k - 1]) = filler[k]

\* r'\b' + re.escape(filler) + r'\b' with re.IGNORECASE matches at i
MatchesAt(text, filler, i) ==
    /\ i + Len(filler) - 1 <= Len(text)
    /\ \A k \in 1..Len(filler) : Lower(text[i + k - 1]) = filler[k]
    /\ i = 1 \/ ~IsWordTok(text[i - 1])
    /\ i + Len(filler) > Len(text) \/ ~IsWordTok(text[i + Len(filler)])

\* re.sub(pattern, '', text): the matches are looked for from left to right
RECURSIVE RemoveFrom(_, _, _)
RemoveFrom(text, filler, i) ==
    IF i > Len(text) THEN <<>>
    ELSE IF MatchesAt(text, filler, i) THEN RemoveFrom(text, filler, i + Len(filler))
    ELSE <<text[i]>> \o RemoveFrom(text, filler, i + 1)

\* for filler in filler_words: one substitution after the other
RECURSIVE RemoveFillers(_, _)
RemoveFillers(text, k) ==
    IF k > Len(filler_words) THEN text
    ELSE RemoveFillers(RemoveFrom(text, filler_words[k], 1), k + 1)

\* the length of the run of white space that starts at i
RECURSIVE SpaceRun(_, _)
SpaceRun(text, i) ==
    IF i <= Len(text) /\ IsSpace(text[i]) THEN 1 + SpaceRun(text, i + 1) ELSE 0

\* re.sub(r'\s*\.\s*', '. ', text)
RECURSIVE SpaceStops(_, _)
SpaceStops(text, i) ==
    IF i > Len(text) THEN <<>>
    ELSE LET j == i + SpaceRun(text, i)
         IN  IF j <= Len(text) /\ IsStop(text[j])
             THEN <<text[j], " ">> \o SpaceStops(text, j + 1 + SpaceRun(text, j + 1))
             ELSE <<text[i]>> \o SpaceStops(text, i + 1)

\* re.sub(r'\s+([.!?])', r'\1', text)
RECURSIVE NoSpaceBeforeStop(_, _)
NoSpaceBeforeStop(text, i) ==
    IF i > Len(text) THEN <<>>
    ELSE LET n == SpaceRun(text, i)
         IN  IF n > 0 /\ i + n <= Len(text) /\ IsStop(text[i + n])
             THEN <<text[i + n]>> \o NoSpaceBeforeStop(text, i + n + 1)
             ELSE <<text[i]>> \o NoSpaceBeforeStop(text, i + 1)

\* part.strip().capitalize() if part.strip() else part
Capitalize(part) ==
    LET p == Strip(part)
    IN  IF p = <<>> THEN part
        ELSE <<Cap(p[1])>> \o [k \in 1..(Len(p) - 1) |-> Lower(p[k + 1])]

\* re.split(r'([.!?])\s+', text), the parts capitalized, ''.join(result):
\* the white space that the pattern takes is not put back
RECURSIVE CapitalizeParts(_, _, _)
CapitalizeParts(text, i, part) ==
    IF i > Len(text) THEN Capitalize(part)
    ELSE IF IsStop(text[i]) /\ SpaceRun(text, i + 1) > 0
    THEN Capitalize(part) \o <<text[i]>>
            \o CapitalizeParts(text, i + 1 + SpaceRun(text, i + 1), <<>>)
    ELSE CapitalizeParts(text, i + 1, Append(part, text[i]))

\* _clean_with_patterns
_clean_with_patterns(text) ==
    IF text = <<>> THEN <<>>
    ELSE LET t1 == Strip(CollapseSpaces(text))
             t2 == RemoveFillers(t1, 1)
             t3 == CollapseSpaces(SpaceStops(t2, 1))
             t4 == NoSpaceBeforeStop(t3, 1)
             t5 == Strip(CollapseSpaces(CapitalizeParts(t4, 1, <<>>)))
         IN  IF t5 # <<>> /\ ~IsStop(t5[Len(t5)]) THEN Append(t5, ".") ELSE t5

\* text.split('.'), each piece stripped, the empty ones left out
RECURSIVE SplitSentences(_, _)
SplitSentences(text, cur) ==
    LET piece == IF Strip(cur) = <<>> THEN <<>> ELSE <<Strip(cur)>>
    IN  IF text = <<>> THEN piece
        ELSE IF Head(text) = "." THEN piece \o SplitSentences(Tail(text), <<>>)
        ELSE SplitSentences(Tail(text), Append(cur, Head(text)))

\* [s.strip() for s in cleaned.replace("\n", " ").split(".") if s.strip()]
Sentences(txt) ==
    SplitSentences([i \in 1..Len(txt) |-> IF txt[i] = "\n" THEN " " ELSE txt[i]], <<>>)

\* '. '.join(sentences)
RECURSIVE JoinDot(_)
JoinDot(sents) ==
    IF sents = <<>> THEN <<>>
    ELSE IF Len(sents) = 1 THEN sents[1]
    ELSE sents[1] \o <<".", " ">> \o JoinDot(Tail(sents))

\* " ".join(sentences)
RECURSIVE JoinSpace(_)
JoinSpace(sents) ==
    IF sents = <<>> THEN <<>>
    ELSE IF Len(sents) = 1 THEN sents[1]
    ELSE sents[1] \o <<" ">> \o JoinSpace(Tail(sents))

(***************************************************************************)
(* The task functions, each a whole call.  A result tells                  *)
(*   status        "return" or "raise"                                     *)
(*   val, exc      the value returned, the exception raised                *)
(*   memo          the module's _gemini_client after the call              *)
(*   answered      some backend call returned text                         *)
(*   usable        the value returned is a backend's answer                *)
(*   ngen          the calls of _generate_with_llm made                    *)
(*   unparsed      those whose text could not be parsed as the JSON asked  *)
(*                 for                                                     *)
(*   trail         summarize: what each attempt did, in order              *)
(***************************************************************************)
Returned(v, memo, answered, usable, ngen) ==
    [status |-> "return", val |-> v, exc |-> "-", memo |-> memo,
     answered |-> answered, usable |-> usable, ngen |-> ngen, unparsed |-> 0,
     truncated |-> 0, trail |-> <<>>]

Raised(e, blank, memo, answered, ngen) ==
    [status |-> "raise", val |-> blank, exc |-> e, memo |-> memo,
     answered |-> answered, usable |-> FALSE, ngen |-> ngen, unparsed |-> 0,
     truncated |-> 0, trail |-> <<>>]

\* one more answer that json.loads could not read
Unparsed(results) == {[x EXCEPT !.unparsed = @ + 1] : x \in results}

\* one more answer that does not end with "}"
Truncated(results) == {[x EXCEPT !.truncated = @ + 1] : x \in results}

\* what an attempt of summarize did, put before what the later attempts did
\*   raise_runtime  _generate_with_llm raised RuntimeError
\*   raise_other    _generate_with_llm raised another exception
\*   empty          the text was empty
\*   reprompt       the text did not end with "}": continue, json.loads not called
\*   repaired       the text did not end with "}", was closed, json.loads read it
\*   unrepairable   the text did not end with "}", was closed, json.loads failed
\*   invalid        json.loads failed on a text that ends with "}"
\*   parsed         json.loads read the text
Stepped(step, results) == {[x EXCEPT !.trail = <<step>> \o @] : x \in results}

\* the texts that pass len(cleaned_text) > 0 and len(cleaned_text) <= len(text) * 1.5
FittingTexts(text) == {c \in Texts : c # <<>> /\ 2 * Len(c) <= 3 * Len(text)}

\* _clean_with_patterns(text) on the texts of a request, as a table worked
\* out once (@@ with the empty function gives the table its values)
PatternCleaned == [t \in RequestTexts |-> _clean_with_patterns(t)] @@ <<>>

\* a variant of clean_transcript without its try/except
clean_transcript_unguarded(text, memo, enabled, haskey) ==
    IF text = <<>> THEN {Returned(<<>>, memo, FALSE, FALSE, 0)}
    ELSE UNION {
            IF r.res.kind = "raise" THEN {Raised(r.res.val, <<>>, r.memo, FALSE, 1)}
            ELSE IF r.res.val = "fits"
            THEN {Returned(c, r.memo, TRUE, TRUE, 1) : c \in FittingTexts(text)}
            ELSE {Returned(PatternCleaned[text], r.memo, TRUE, FALSE, 1)}
         : r \in GenerateResults["clean", memo, enabled, haskey]}

clean_transcript(text, memo, enabled, haskey) ==
    IF text = <<>> THEN {Returned(<<>>, memo, FALSE, FALSE, 0)}
    ELSE UNION {
            IF r.res.kind = "text" /\ r.res.val = "fits"
            THEN {Returned(c, r.memo, TRUE, TRUE, 1) : c \in FittingTexts(text)}
            ELSE {Returned(PatternCleaned[text], r.memo,
                           r.res.kind = "text", FALSE, 1)}
         : r \in GenerateResults["clean", memo, enabled, haskey]}

Segment(speaker, text) == [speaker |-> speaker, text |-> text]

\* The speaker labels that texts have here, of the kind 'Speaker\s*\d+',
\* matched with re.IGNORECASE.
Labels == {"Speaker 1", "Speaker 2", "speaker 1", "speaker 2"}
\* the words spelled [A-Z][a-z]+
CapitalizedWords == {"Um", "You", "Know", "Ann", "Bob", "Will"}

\* re.sub(r'\.([A-Z])', r'. \1', text)
RECURSIVE SpaceAfterStop(_)
SpaceAfterStop(text) ==
    IF text = <<>> THEN <<>>
    ELSE IF Head(text) = "." /\ Len(text) > 1 /\ At(text[2], 1) \in Uppers
    THEN <<".", " ">> \o SpaceAfterStop(Tail(text))
    ELSE <<Head(text)>> \o SpaceAfterStop(Tail(text))

\* text.split('\n'), each line stripped, the empty ones left out
RECURSIVE SplitLines(_, _)
SplitLines(text, cur) ==
    LET line == IF Strip(cur) = <<>> THEN <<>> ELSE <<Strip(cur)>>
    IN  IF text = <<>> THEN line
        ELSE IF Head(text) = "\n" THEN line \o SplitLines(Tail(text), <<>>)
        ELSE SplitLines(Tail(text), Append(cur, Head(text)))

\* re.search(pattern, line, re.IGNORECASE) over speaker_patterns: the
\* leftmost match of the first pattern that has one.  The patterns that
\* texts can match are 'Speaker\s*\d+', 'HR' and 'Finance', in this order;
\* a match is a token of its own, and a number ("15") stands after white
\* space, so that no piece and its number make a label ('S\d+').
SpeakerFound(line) ==
    LET Spelt(names) == {k \in DOMAIN line : Lower(line[k]) \in names}
        speaker_patterns == <<{"speaker 1", "speaker 2"}, {"hr"}, {"finance"}>>
        matching == {p \in DOMAIN speaker_patterns : Spelt(speaker_patterns[p]) # {}}
    IN  IF matching = {} THEN None
        ELSE line[Least(Spelt(speaker_patterns[Least(matching)]))]

\* the two re.sub of '^' + speaker_found: the label at the head of the line
\* goes, with the white space after it
StripLabel(line, speaker_found) ==
    IF Head(line) = speaker_found THEN LStrip(Tail(line)) ELSE line

\* a variant of append that puts the segment in front
Appended_InFront(segs, speaker, cur) ==
    IF Strip(cur) = <<>> THEN segs ELSE <<Segment(speaker, Strip(cur))>> \o segs

\* if current_text.strip(): segments.append((current_speaker, current_text.strip()))
Appended(segs, speaker, cur) ==
    IF Strip(cur) = <<>> THEN segs ELSE Append(segs, Segment(speaker, Strip(cur)))

\* for line in lines, and the append after the loop
RECURSIVE ScanLines(_, _, _, _, _)
ScanLines(lines, k, segs, speaker, cur) ==
    IF k > Len(lines) THEN Appended(segs, speaker, cur)
    ELSE LET speaker_found == SpeakerFound(lines[k])
         IN  IF speaker_found # None
             THEN ScanLines(lines, k + 1, Appended(segs, speaker, cur),
                            speaker_found, StripLabel(lines[k], speaker_found))
             ELSE ScanLines(lines, k + 1, segs, speaker,
                            IF cur = <<>> THEN lines[k]
                            ELSE cur \o <<" ">> \o lines[k])

\* the pieces of a word as one string
RECURSIVE Concat(_)
Concat(pieces) ==
    IF pieces = <<>> THEN "" ELSE Head(pieces) \o Concat(Tail(pieces))

\* the departments of the first and the third of speaker_change_patterns
Departments ==
    <<"HR", "Finance", "IT", "Engineering", "Marketing", "Sales", "Legal", "Management">>

\* speaker_change_patterns on a sentence: re.search of the four patterns in
\* their order; a match whose name is in the list of excluded words
\* ("will", ...) counts for nothing, and the next pattern is tried
DetectedSpeaker(sentence) ==
    LET s == Concat(sentence)
        n == Len(s)
        Boundary(i) == i = 1 \/ At(s, i - 1) \notin WordChars
        \* \s+ from i on and then one of the words: the places after the word
        Then(i, words) ==
            LET j == RunEnd(s, i, Spaces) + 1
            IN  {j + Len(w) : w \in {w \in words : j > i /\ StartsAt(s, j, w)}}
        \* (HR|Finance|...)\s+(?:will|needs?|must|should|to|is) at i
        DeptAt(i) ==
            {k \in DOMAIN Departments :
                /\ StartsAt(s, i, Departments[k])
                /\ Then(i + Len(Departments[k]),
                        {"will", "need", "must", "should", "to", "is"}) # {}}
        \* ([A-Z][a-z]+)\s+(?:<modals>)\s+(?:<verbs>) at i
        NameAt(i, modals, verbs) ==
            /\ At(s, i) \in Uppers
            /\ RunEnd(s, i + 1, Lowers) > i
            /\ \E p \in Then(RunEnd(s, i + 1, Lowers) + 1, modals) :
                  /\ p <= n
                  /\ At(s, p) \in Spaces
                  /\ verbs = {} \/ Then(p, verbs) # {}
        Name(i) == SubSeq(s, i, RunEnd(s, i + 1, Lowers))
        Excluded(name) ==
            str_lower(name) \in {"decided", "agreed", "needs", "must", "should", "will"}
        third == {i \in 1..n : Boundary(i) /\ DeptAt(i) # {}}
        fourth ==
            {i \in 1..n :
                /\ Boundary(i)
                /\ NameAt(i, {"will", "to", "must", "should"},
                          {"draft", "finalize", "prepare", "coordinate", "review",
                           "implement", "deploy", "complete", "launch"})}
    IN  IF n = 0 THEN None
        ELSE IF DeptAt(1) # {} THEN Departments[Least(DeptAt(1))]
        ELSE IF /\ NameAt(1, {"will", "needs", "need", "must", "should", "to"}, {})
                /\ ~Excluded(Name(1))
        THEN Name(1)
        ELSE IF third # {} THEN Departments[Least(DeptAt(Least(third)))]
        ELSE IF fourth # {} /\ ~Excluded(Name(Least(fourth))) THEN Name(Least(fourth))
        ELSE None

\* current_speaker or "Unknown"
OrUnknown(speaker) == IF speaker = None THEN "Unknown" ELSE speaker

\* for sentence in sentences, and the append after the loop
RECURSIVE ScanSentences(_, _, _, _, _)
ScanSentences(sents, k, segs, speaker, cur) ==
    IF k > Len(sents) THEN Appended(segs, OrUnknown(speaker), cur)
    ELSE LET detected_speaker == DetectedSpeaker(sents[k])
         IN  IF detected_speaker # None /\ detected_speaker # speaker
             THEN ScanSentences(sents, k + 1,
                                Appended(segs, OrUnknown(speaker), cur),
                                detected_speaker, sents[k])
             ELSE ScanSentences(sents, k + 1, segs, speaker,
                                IF cur = <<>> THEN sents[k]
                                ELSE cur \o <<".", " ">> \o sents[k])

Known(segs) == SelectSeq(segs, LAMBDA seg : seg.speaker # "Unknown")

\* if len([s for s in smart_segments if s[0] != "Unknown"]) > 1: ...
WithoutUnknown(segs) == IF Len(Known(segs)) > 1 THEN Known(segs) ELSE segs

\* a variant with chunks of three sentences, whatever their number
ChunkSegments_OfThree(sents) ==
    [k \in 1..((Len(sents) + 2) \div 3) |->
        Segment("Speaker " \o ToString(k),
                JoinDot(SubSeq(sents, (k - 1) * 3 + 1, Min(k * 3, Len(sents)))))]

\* chunk_segments: the sentences in chunks of chunk_size, numbered
ChunkSegments(sents) ==
    LET n == Len(sents)
        chunk_size == Max(3, n \div 5)
    IN  [k \in 1..((n + chunk_size - 1) \div chunk_size) |->
            Segment("Speaker " \o ToString(k),
                    JoinDot(SubSeq(sents, (k - 1) * chunk_size + 1,
                                   Min(k * chunk_size, n))))]

\* _diarize_with_patterns
_diarize_with_patterns(text) ==
    IF text = <<>> THEN <<>>
    ELSE LET spaced == SpaceAfterStop(text)
             segs == ScanLines(SplitLines(spaced, <<>>), 1, <<>>, "Unknown", <<>>)
             sents == SplitSentences(spaced, <<>>)
             smart_segments == WithoutUnknown(ScanSentences(sents, 1, <<>>, None, <<>>))
         IN  IF Len(segs) > 1 THEN segs
             ELSE IF Len(smart_segments) > 1 THEN smart_segments
             ELSE IF Len(sents) > 5 THEN ChunkSegments(sents)
             ELSE <<Segment("Meeting Transcript", spaced)>>

\* _diarize_with_patterns(text) on the texts a request can hand to diarize,
\* raw or cleaned, as a table worked out once
PatternSegments ==
    [t \in RequestTexts \cup {PatternCleaned[c] : c \in RequestTexts} |->
        _diarize_with_patterns(t)] @@ <<>>

\* the segment lists a backend's JSON array can give for a text
LlmSegments(text) == {<<Segment("Speaker 1", text)>>}

diarize(text, memo, enabled, haskey) ==
    IF text = <<>> THEN {Returned(<<>>, memo, FALSE, FALSE, 0)}
    ELSE UNION {
            IF r.res.kind = "text" /\ r.res.val = "segments"
            THEN {Returned(segs, r.memo, TRUE, TRUE, 1) : segs \in LlmSegments(text)}
            ELSE LET fallback == {Returned(PatternSegments[text], r.memo,
                                           r.res.kind = "text", FALSE, 1)}
                 IN  IF r.res.kind = "text" /\ r.res.val = "malformed"
                     THEN Unparsed(fallback) ELSE fallback
         : r \in GenerateResults["diarization", memo, enabled, haskey]}

\* the keys of the JSON object that _SYSTEM_PROMPT asks for
SummaryFields ==
    {"title", "date", "time", "attendants", "project_name", "customer",
     "table_of_content", "main_content"}
ListFields == {"attendants", "table_of_content"}

\* a dict maps each of its keys to "text", "list", "To be determined", "[]" or "null"
EmptyDict == [f \in {} |-> "null"]
FullSummary ==
    [f \in SummaryFields |->
        IF f \in ListFields THEN "list"
        ELSE IF f \in {"date", "time"} THEN "To be determined" ELSE "text"]

\* the objects json.loads can give: what the backend wrote, nothing added
PartialSummaries ==
    {EmptyDict,
     [f \in SummaryFields \ {"customer"} |-> FullSummary[f]],
     [FullSummary EXCEPT !["project_name"] = "null"]}
ParsedSummaries(kind) ==
    IF kind = "full" THEN {FullSummary} ELSE PartialSummaries

\* max_retries = 2
max_retries == 2

\* a variant of json.loads that wraps the text it cannot read
Loads_Unchecked(kind) ==
    IF kind = "truncated_fixable" THEN PartialSummaries ELSE {[raw |-> "text"]}

\* structured_data = json.loads(cleaned_text) on a text that was cut and
\* then closed by the last attempt: a dict when the closed text is JSON,
\* JSONDecodeError (no value) when it is not
Loads(kind) ==
    IF kind = "truncated_fixable" THEN PartialSummaries ELSE {}

\* if attempt < max_retries: continue
NoRetry(attempt) == FALSE

MayRetry(attempt) == attempt < max_retries

\* except RuntimeError as e: ... raise
Retried(e) == FALSE

IsRuntimeError(e) == e = "RuntimeError"

\* summarize: attempt, attempt + 1, ... of for attempt in range(max_retries + 1)
RECURSIVE SummarizeFrom(_, _, _, _, _)
SummarizeFrom(attempt, memo, answered, enabled, haskey) ==
    UNION {
        LET ans == answered \/ r.res.kind = "text"
            n == attempt + 1
            failed == {Raised("RuntimeError", EmptyDict, r.memo, ans, n)}
            again == IF MayRetry(attempt)
                     THEN SummarizeFrom(attempt + 1, r.memo, ans, enabled, haskey)
                     ELSE failed
        IN  CASE r.res.kind = "raise" ->
                    Stepped(IF r.res.val = "RuntimeError" THEN "raise_runtime"
                            ELSE "raise_other",
                            IF IsRuntimeError(r.res.val) THEN failed ELSE again)
              [] r.res.val = "empty" -> Stepped("empty", failed)
              [] r.res.val \in {"full", "partial"} ->
                    Stepped("parsed",
                        {Returned(d, r.memo, TRUE, TRUE, n)
                            : d \in ParsedSummaries(r.res.val)})
              [] r.res.val \in {"truncated_fixable", "truncated_broken"} ->
                    Truncated(Unparsed(
                        IF MayRetry(attempt)
                        THEN Stepped("reprompt",
                                SummarizeFrom(attempt + 1, r.memo, ans, enabled, haskey))
                        ELSE IF Loads(r.res.val) = {}
                        THEN Stepped("unrepairable", failed)
                        ELSE Stepped("repaired",
                                {Returned(d, r.memo, TRUE, TRUE, n)
                                    : d \in Loads(r.res.val)})))
              [] OTHER -> Stepped("invalid", Unparsed(again))
      : r \in GenerateResults["summarization", memo, enabled, haskey]}

\* the results of summarize, worked out once for every handle and configuration
SummarizeResults ==
    [memo \in Handles, enabled \in BOOLEAN, haskey \in BOOLEAN |->
        SummarizeFrom(0, memo, FALSE, enabled, haskey)]

summarize(sents, memo, enabled, haskey) == SummarizeResults[memo, enabled, haskey]

\* ActionItem and Decision of schemas/mom.py
ActionItem(description, owner, due_date, priority) ==
    [description |-> description, owner |-> owner, due_date |-> due_date,
     priority |-> priority]
Decision(text, owner) == [text |-> text, owner |-> owner]

Extraction(actions, decisions) == [actions |-> actions, decisions |-> decisions]

NoMatch == [ok |-> FALSE, owner |-> "", description |-> ""]

\* re.search(r'\b([A-Z][a-z]+(?:\s+[A-Z][a-z]+)?)\s+<modal>\s+([\w\s]{10,80}?)
\* (?:<ends>|\.|$)', sentence): the leftmost match, the second name taken
\* when the rest matches with it, the white space before the second group
\* as long as the rest allows, the second group as short as it allows
ActionMatch(s, modals, ends) ==
    LET n == Len(s)
        Closes(i) ==
            \/ i = n + 1
            \/ i = n /\ At(s, n) = "\n"
            \/ i <= n /\ At(s, i) = "."
            \/ /\ i <= n
               /\ At(s, i) \in Spaces
               /\ \E w \in ends : StartsAt(s, RunEnd(s, i, Spaces) + 1, w)
        Lengths(g) ==
            {L \in 10..80 : /\ RunEnd(s, g, WordChars \cup Spaces) >= g + L - 1
                            /\ Closes(g + L)}
        \* the starts of the second group, when the modal ends before a
        Groups(a) == {g \in (a + 1)..(RunEnd(s, a, Spaces) + 1) : Lengths(g) # {}}
        \* the match of the names i..e with the second group at g
        Matched(i, e, g) ==
            [ok |-> TRUE,
             owner |-> StrStrip(SubSeq(s, i, e)),
             description |-> StrStrip(SubSeq(s, g, g + Least(Lengths(g)) - 1))]
        Fitting(i, e, m, fits) ==
            IF fits = {} THEN NoMatch
            ELSE Matched(i, e, Greatest(Groups(m + Len(CHOOSE x \in fits : TRUE))))
        \* the match whose names end at e, with the modal at m
        Modal(i, e, m) ==
            Fitting(i, e, m,
                    {modal \in modals : /\ m > e + 1
                                         /\ StartsAt(s, m, modal)
                                         /\ Groups(m + Len(modal)) # {}})
        After(i, e) == Modal(i, e, RunEnd(s, e + 1, Spaces) + 1)
        \* two names when they lead to a match, one name otherwise
        Preferred(i, e1, two) == IF two.ok THEN two ELSE After(i, e1)
        Second(i, e1, u) ==
            Preferred(i, e1,
                      IF /\ u > e1 + 1 /\ u <= n /\ At(s, u) \in Uppers
                         /\ RunEnd(s, u + 1, Lowers) > u
                      THEN After(i, RunEnd(s, u + 1, Lowers)) ELSE NoMatch)
        First(i, e1) == Second(i, e1, RunEnd(s, e1 + 1, Spaces) + 1)
        MatchAt(i) ==
            IF ~(/\ At(s, i) \in Uppers
                 /\ i = 1 \/ At(s, i - 1) \notin WordChars
                 /\ RunEnd(s, i + 1, Lowers) > i)
            THEN NoMatch
            ELSE First(i, RunEnd(s, i + 1, Lowers))
        Leftmost(starts) == IF starts = {} THEN NoMatch ELSE MatchAt(Least(starts))
    IN  Leftmost({i \in 1..n : MatchAt(i).ok})

Months ==
    {"january", "february", "march", "april", "may", "june", "july", "august",
     "september", "october", "november", "december"}

\* re.search(r'by\s+((?:january|...|december)\s+\d+|the end of \w+|\d+\/\d+)',
\* sentence, re.IGNORECASE): group 1 of the leftmost match, or None
DueDate(s) ==
    LET low == str_lower(s)
        \* the last character of the group that starts at d, 0 when none does
        GroupEnd(d) ==
            LET months == {mo \in Months : StartsAt(low, d, mo)}
                mo == CHOOSE x \in months : TRUE
                w == RunEnd(s, d + Len(mo), Spaces)
                slash == RunEnd(s, d, Digits) + 1
            IN  IF /\ months # {}
                   /\ w >= d + Len(mo)
                   /\ RunEnd(s, w + 1, Digits) > w
                THEN RunEnd(s, w + 1, Digits)
                ELSE IF /\ StartsAt(low, d, "the end of ")
                        /\ RunEnd(s, d + 11, WordChars) >= d + 11
                THEN RunEnd(s, d + 11, WordChars)
                ELSE IF /\ slash > d
                        /\ StartsAt(s, slash, "/")
                        /\ RunEnd(s, slash + 1, Digits) > slash
                THEN RunEnd(s, slash + 1, Digits)
                ELSE 0
        Group(i) == RunEnd(s, i + 2, Spaces) + 1
        found == {i \in 1..Len(s) : /\ StartsAt(low, i, "by")
                                    /\ Group(i) > i + 2
                                    /\ GroupEnd(Group(i)) > 0}
    IN  IF found = {} THEN None
        ELSE SubSeq(s, Group(Least(found)), GroupEnd(Group(Least(found))))

\* decision_keywords
decision_keywords ==
    <<"proposal is to", "proposal includes", "policy will", "guideline will",
      "decided to", "agreed to", "consensus was", "will be rolled out">>

\* re.split(r'\s+(?:the|this|it|and|but|however)\s+', s)[0]
BeforeFiller(s) ==
    LET cuts == {i \in 1..Len(s) :
                    /\ At(s, i) \in Spaces
                    /\ \E w \in {"the", "this", "it", "and", "but", "however"} :
                          LET j == RunEnd(s, i, Spaces) + 1
                          IN  /\ StartsAt(s, j, w)
                              /\ j + Len(w) <= Len(s)
                              /\ At(s, j + Len(w)) \in Spaces}
    IN  IF cuts = {} THEN s ELSE SubSeq(s, 1, Least(cuts) - 1)

\* the decisions of one sentence: the first keyword of the list that the
\* sentence holds decides, and the loop over the keywords ends there
SentenceDecisions(s) ==
    LET low == str_lower(s)
        held == {k \in DOMAIN decision_keywords : Find(low, decision_keywords[k], 1) > 0}
        keyword == decision_keywords[Least(held)]
        p == Find(low, keyword, 1) + Len(keyword)
        q == Find(low, keyword, p)
        \* sentence.lower().split(keyword)[1]
        part == SubSeq(low, p, IF q = 0 THEN Len(low) ELSE q - 1)
        decision_text == BeforeFiller(StrCollapse(StrStrip(part)))
    IN  IF held # {} /\ Len(decision_text) > 15 /\ Len(decision_text) < 200
        THEN <<Decision(StrStrip(decision_text), None)>>
        ELSE <<>>

\* the openers of response_patterns, lower-cased
response_openers ==
    <<"to solve this,", "in response,", "to address this,", "to compensate,">>

\* re.finditer(opener + r'\s+(.{20,200}?)(?:\.|$)', text, re.IGNORECASE)
\* from the character i on: the decisions of the matches, in their order
RECURSIVE ResponseDecisions(_, _, _)
ResponseDecisions(text, opener, i) ==
    LET n == Len(text)
        low == str_lower(text)
        Closes(j) == j = n + 1 \/ (j = n /\ At(text, n) = "\n")
                               \/ (j <= n /\ At(text, j) = ".")
        Lengths(g) ==
            {L \in 20..200 : /\ g + L - 1 <= n
                             /\ Find(SubSeq(text, g, g + L - 1), "\n", 1) = 0
                             /\ Closes(g + L)}
        Groups(m) ==
            {g \in (m + Len(opener) + 1)..(RunEnd(text, m + Len(opener), Spaces) + 1) :
                Lengths(g) # {}}
        starts == {m \in i..n : StartsAt(low, m, opener) /\ Groups(m) # {}}
    IN  IF starts = {} THEN <<>>
        ELSE LET m == Least(starts)
                 g == CHOOSE x \in Groups(m) : \A y \in Groups(m) : y <= x
                 L == Least(Lengths(g))
                 decision_text == StrCollapse(StrStrip(SubSeq(text, g, g + L - 1)))
                 next == IF g + L <= n /\ At(text, g + L) = "." THEN g + L + 1 ELSE g + L
             IN  (IF Len(decision_text) > 15 THEN <<Decision(decision_text, None)>>
                  ELSE <<>>) \o ResponseDecisions(text, opener, next)

\* the items whose key no earlier item has: the first occurrence stays
FirstOfKey(items, keys) ==
    LET RECURSIVE Kept(_)
        Kept(i) ==
            IF i > Len(items) THEN <<>>
            ELSE (IF \E j \in 1..(i - 1) : keys[j] = keys[i] THEN <<>>
                  ELSE <<items[i]>>) \o Kept(i + 1)
    IN  Kept(1)

\* action.description.lower() and decision.text.lower()[:50]
ActionKey(a) == str_lower(a.description)
DecisionKey(d) == SubSeq(str_lower(d.text), 1, Min(50, Len(d.text)))

\* lst[:15]
FirstFifteen(lst) == SubSeq(lst, 1, Min(15, Len(lst)))

\* the action item of a match of one of the two action patterns
MatchedItem(m, due_date) ==
    IF m.ok /\ Len(m.description) > 5
    THEN <<ActionItem(m.description, m.owner, due_date, None)>>
    ELSE <<>>

\* the action items of one stripped sentence
SentenceItems(sentence) ==
    IF Len(sentence) < 20 THEN <<>>
    ELSE MatchedItem(ActionMatch(sentence, {"will"}, {"by", "starting", "to"}),
                     DueDate(sentence))
         \o MatchedItem(ActionMatch(sentence, {"must", "should"}, {"by", "to"}), None)

\* the action items and the decisions of the sentences, in the two loops
RECURSIVE SentenceActions(_)
SentenceActions(parts) ==
    IF parts = <<>> THEN <<>>
    ELSE SentenceItems(StrStrip(Head(parts))) \o SentenceActions(Tail(parts))

KeywordFound(sentence) ==
    IF Len(sentence) < 20 THEN <<>> ELSE SentenceDecisions(sentence)

RECURSIVE KeywordDecisions(_)
KeywordDecisions(parts) ==
    IF parts = <<>> THEN <<>>
    ELSE KeywordFound(StrStrip(Head(parts))) \o KeywordDecisions(Tail(parts))

\* unique_actions[:15] and unique_decisions[:15]
UniqueActions(found) ==
    FirstFifteen(FirstOfKey(found, [i \in DOMAIN found |-> ActionKey(found[i])]))
UniqueDecisions(decided) ==
    FirstFifteen(FirstOfKey(decided, [i \in DOMAIN decided |-> DecisionKey(decided[i])]))

\* what the rules find in the text with the sentences `parts`
RulesFound(text, parts) ==
    Extraction(
        UniqueActions(SentenceActions(parts)),
        UniqueDecisions(KeywordDecisions(parts)
                            \o ResponseDecisions(text, response_openers[1], 1)
                            \o ResponseDecisions(text, response_openers[2], 1)
                            \o ResponseDecisions(text, response_openers[3], 1)
                            \o ResponseDecisions(text, response_openers[4], 1)))

\* _extract_with_rules.  No text holds "Action items were assigned.", so
\* action_section_match is None and the section's own patterns do not run.
_extract_with_rules(text) == RulesFound(text, StrSplitStops(text, 1))

\* a value of the parsed JSON where the code expects a string: a string, or
\* something else (null, a number)
JsonStr(s) == [type |-> "str", str |-> s]
JsonNull == [type |-> "null", str |-> ""]
\* the items of the parsed JSON: owner, due_date and priority are strings,
\* or None for null
RawAction(description, owner, due_date, priority) ==
    [description |-> description, owner |-> owner, due_date |-> due_date,
     priority |-> priority]
RawDecision(text, owner) == [text |-> text, owner |-> owner]

\* what the local model does with a prompt: it fails to load or to generate
\* ("raise"), or its text is no JSON ("malformed"), JSON that is no object
\* ("not_object"), or an object with these lists
Reply(kind, action_items, decisions) ==
    [kind |-> kind, action_items |-> action_items, decisions |-> decisions]

action_verbs ==
    {"draft", "finalize", "prepare", "schedule", "enforce", "implement",
     "create", "review", "update", "submit", "complete", "monitor",
     "analyze", "develop", "coordinate", "organize", "send", "provide"}

\* # Clean owner, # Clean due_date
CleanOptional(v) ==
    IF v = None \/ v = "" THEN None
    ELSE IF Len(StrStrip(v)) > 50
            \/ str_lower(StrStrip(v)) \in {"null", "none", "n/a", ""}
    THEN None
    ELSE StrStrip(v)

\* a variant of the validation without the check of the length
KeptAction_AnyLength(description) ==
    \E verb \in action_verbs : Find(str_lower(description), verb, 1) > 0

\* not (not description or len(description) < 5), and has_action
KeptAction(description) ==
    /\ Len(description) >= 5
    /\ \E verb \in action_verbs : Find(str_lower(description), verb, 1) > 0

\* _validate_and_clean_extraction: raises (AttributeError) when a
\* description or a text is no string
_validate_and_clean_extraction(data) ==
    LET RECURSIVE Actions(_)
        Actions(i) ==
            IF i > Len(data.action_items) THEN <<>>
            ELSE LET item == data.action_items[i]
                     description == StrStrip(item.description.str)
                 IN  (IF KeptAction(description)
                      THEN <<ActionItem(SubSeq(description, 1, Min(200, Len(description))),
                                        CleanOptional(item.owner),
                                        CleanOptional(item.due_date),
                                        item.priority)>>
                      ELSE <<>>) \o Actions(i + 1)
        RECURSIVE Decisions(_)
        Decisions(i) ==
            IF i > Len(data.decisions) THEN <<>>
            ELSE LET item == data.decisions[i]
                     text == StrStrip(item.text.str)
                 IN  (IF Len(text) >= 10
                      THEN <<Decision(SubSeq(text, 1, Min(250, Len(text))),
                                      CleanOptional(item.owner))>>
                      ELSE <<>>) \o Decisions(i + 1)
    IN  IF \/ \E i \in DOMAIN data.action_items :
                 data.action_items[i].description.type # "str"
           \/ \E i \in DOMAIN data.decisions : data.decisions[i].text.type # "str"
        THEN [raises |-> TRUE, action_items |-> <<>>, decisions |-> <<>>]
        ELSE [raises |-> FALSE, action_items |-> Actions(1), decisions |-> Decisions(1)]

\* the rule items that the loop of the augmentation appends: those whose
\* key is not among the keys so far
Appended_New(items, existing, rule_items, rule_keys) ==
    LET new == {i \in DOMAIN rule_items :
                   /\ rule_keys[i] \notin existing
                   /\ \A j \in 1..(i - 1) : rule_keys[j] # rule_keys[i]}
        Nth(k) == CHOOSE i \in new : Cardinality({j \in new : j <= i}) = k
    IN  items \o [k \in 1..Cardinality(new) |-> rule_items[Nth(k)]]

\* a variant that returns the rule-based result in place of a short one
Augmented_Replaced(x, rules) ==
    IF Len(x.actions) < 3 \/ Len(x.decisions) < 2 THEN rules ELSE x

\* if len(actions) < 3 or len(decisions) < 2: "LLM results seem incomplete,
\* augmenting with rule-based extraction"
Augmented(x, rules) ==
    IF Len(x.actions) < 3 \/ Len(x.decisions) < 2
    THEN Extraction(
            Appended_New(x.actions,
                         {ActionKey(x.actions[i]) : i \in DOMAIN x.actions},
                         rules.actions,
                         [i \in DOMAIN rules.actions |-> ActionKey(rules.actions[i])]),
            Appended_New(x.decisions,
                         {DecisionKey(x.decisions[i]) : i \in DOMAIN x.decisions},
                         rules.decisions,
                         [i \in DOMAIN rules.decisions |-> DecisionKey(rules.decisions[i])]))
    ELSE x

\* " ".join(sentences), as the string that the tokens spell
FullText(sents) == Concat(JoinSpace(sents))

\* the replies of the local model in a request
LocalReplies ==
    {Reply("raise", <<>>, <<>>),
     Reply("malformed", <<>>, <<>>),
     Reply("not_object", <<>>, <<>>),
     Reply("object", <<RawAction(JsonNull, None, None, None)>>, <<>>),
     Reply("object", <<>>, <<>>),
     Reply("object",
           <<RawAction(JsonStr("prepare the report"), "Alice", None, "high")>>,
           <<RawDecision(JsonStr("adopt the new policy"), None)>>)}

\* the word of the k-th unit of a text
UnitWord(k) == "w" \o ToString(k)

\* the most items of their own in a list of the local model's JSON, the
\* most items of the other forms, and the most sentences of a request
MaxItems == 26
MaxShort == 3
MaxSentences == 2

\* the words, with one space between them, as a sentence
Spaced(words) == JoinSpace([i \in DOMAIN words |-> <<words[i]>>])

SentenceForms ==
    {Spaced(<<"Ann", "will", "draft", "the", "remote", "work", "policy", "by",
              "October", "15">>),
     Spaced(<<"Bob", "will", "Draft", "the", "remote", "work", "policy">>) \o <<".">>,
     Spaced(<<"Bob", "should", "finalize", "the", "Q4", "budget">>),
     Spaced(<<"Ann", "decided", "to", "draft", "remote", "work", "policy">>),
     Spaced(<<"We", "agreed", "to", "Draft", "remote", "work", "policy", "and",
              "more">>) \o <<".">>,
     Spaced(<<"HR", "will", "draft">>) \o <<".">>,
     Spaced(<<"Finance", "needs", "to", "finalize", "the", "Q4", "budget", "by",
              "October", "20">>)}

\* n sentences that each name a task of its own
Numbered(n) ==
    [k \in 1..n |->
        Spaced(<<"Ann", "will", "draft", "report", UnitWord(k)>>) \o <<".">>]

ProbeSentences ==
    UNION {[1..n -> SentenceForms] : n \in 0..MaxSentences} \cup {Numbered(MaxItems)}

ItemForms == {"distinct", "repeat", "padded", "untyped"}

\* the k-th of n action items and decisions of the local model's JSON
ReplyAction(form, k, n) ==
    CASE form = "repeat" ->
            RawAction(JsonStr(IF k % 2 = 1 THEN "draft the remote work policy"
                              ELSE "Draft the remote work policy"),
                      "Ann", None, None)
      [] form = "padded" ->
            RawAction(JsonStr(CASE k % 3 = 1 -> " draft "
                                [] k % 3 = 2 -> "send"
                                [] OTHER -> "remote work policy"),
                      IF k % 2 = 1 THEN " Ann " ELSE "N/A", "", "high")
      [] form = "untyped" /\ k = n -> RawAction(JsonNull, None, None, None)
      [] OTHER -> RawAction(JsonStr("draft report " \o UnitWord(k)), "Ann",
                            "October 15", "high")

ReplyDecision(form, k, n) ==
    CASE form = "repeat" ->
            RawDecision(JsonStr("draft remote work policy for every office of the company "
                                    \o UnitWord(k)), None)
      [] form = "padded" ->
            RawDecision(JsonStr(CASE k % 3 = 1 -> " Q4 budget "
                                  [] k % 3 = 2 -> "Draft remote work policy"
                                  [] OTHER -> " decided to "),
                        "Ann")
      [] form = "untyped" /\ k = n -> RawDecision(JsonNull, None)
      [] OTHER -> RawDecision(JsonStr("adopt the new policy " \o UnitWord(k)), None)

\* the lists of a form: of the form "distinct" up to MaxItems items, of the
\* others up to MaxShort
ProbeReplies ==
    {Reply("raise", <<>>, <<>>), Reply("malformed", <<>>, <<>>),
     Reply("not_object", <<>>, <<>>)}
    \cup {Reply("object", [k \in 1..a[2] |-> ReplyAction(a[1], k, a[2])],
                          [k \in 1..nd |-> ReplyDecision(fd, k, nd)])
            : a \in ({"distinct"} \X (0..MaxItems)) \cup (ItemForms \X (0..MaxShort)),
              fd \in ItemForms, nd \in 0..MaxShort}

\* _extract_with_rules and _validate_and_clean_extraction on the sentences
\* and the replies of the requests and of the calls on their own, as tables
\* worked out once
RuleTable ==
    [sents \in ProbeSentences
                \cup {Sentences(t) : t \in Texts \cup {PatternCleaned[c] : c \in RequestTexts}} |->
        _extract_with_rules(FullText(sents))] @@ <<>>
ValidTable ==
    [reply \in ProbeReplies \cup LocalReplies |->
        _validate_and_clean_extraction(reply)] @@ <<>>

\* rule_actions, rule_decisions = _extract_with_rules(full_text)
Rules(sents) == RuleTable[sents]

\* the try block of extract_actions_and_decisions with its except clauses,
\* when the local model does `reply`: json.JSONDecodeError and every other
\* Exception end in return _extract_with_rules(full_text)
Extracted(rules, reply) ==
    LET data == ValidTable[reply]
    IN  IF reply.kind = "raise"
        THEN {Returned(rules, None, FALSE, FALSE, 1)}
        ELSE IF reply.kind = "malformed"
        THEN Unparsed({Returned(rules, None, TRUE, FALSE, 1)})
        ELSE IF reply.kind = "not_object" \/ data.raises
        THEN {Returned(rules, None, TRUE, FALSE, 1)}
        ELSE {Returned(Augmented(Extraction(data.action_items, data.decisions), rules),
                       None, TRUE, TRUE, 1)}

\* extract_actions_and_decisions, when the local model does `reply` if it
\* is called
ExtractOn(sents, installed, reply) ==
    IF ~installed THEN {Returned(Rules(sents), None, FALSE, FALSE, 0)}
    ELSE Extracted(Rules(sents), reply)

extract_actions_and_decisions(sents, diarization_data, installed) ==
    UNION {ExtractOn(sents, installed, reply) : reply \in LocalReplies}

(***************************************************************************)
(* The gateway, one backend call per step.                                 *)
(***************************************************************************)
Cur == [g |-> gw, memo |-> gemini_client[gw.mod]]

Take(s) ==
    /\ gw' = s.g
    /\ gemini_client' = [gemini_client EXCEPT ![gw.mod] = s.memo]

\* a caller invokes _generate_with_llm of module mod
Generate(mod) ==
    /\ gw.pc \in {"idle", "done"}
    /\ ninv < MaxInvocations
    /\ gw' = GStart(mod, openai_enabled)
    /\ ninv' = ninv + 1
    /\ UNCHANGED <<gemini_client, probevars, envvars, taskvars, pipevars>>

OpenaiCall ==
    /\ gw.pc = "openai"
    /\ \E s \in OpenaiSucc(Cur) : Take(s)
    /\ UNCHANGED <<ninv, probevars, envvars, taskvars, pipevars>>

GeminiEntry ==
    /\ gw.pc = "gemini"
    /\ \E s \in GeminiEntrySucc(Cur, gemini_key) : Take(s)
    /\ UNCHANGED <<ninv, probevars, envvars, taskvars, pipevars>>

MemoCall ==
    /\ gw.pc = "memo"
    /\ \E s \in MemoSucc(Cur) : Take(s)
    /\ UNCHANGED <<ninv, probevars, envvars, taskvars, pipevars>>

LoopCall ==
    /\ gw.pc = "loop"
    /\ \E s \in LoopSucc(Cur) : Take(s)
    /\ UNCHANGED <<ninv, probevars, envvars, taskvars, pipevars>>

RetryCall ==
    /\ gw.pc = "retry"
    /\ \E s \in RetrySucc(Cur) : Take(s)
    /\ UNCHANGED <<ninv, probevars, envvars, taskvars, pipevars>>

PostList ==
    /\ gw.pc = "post"
    /\ \E s \in PostListSucc(Cur) : Take(s)
    /\ UNCHANGED <<ninv, probevars, envvars, taskvars, pipevars>>

PostLoopCall ==
    /\ gw.pc = "postloop"
    /\ \E s \in PostLoopSucc(Cur) : Take(s)
    /\ UNCHANGED <<ninv, probevars, envvars, taskvars, pipevars>>

(***************************************************************************)
(* The task functions called one after another, each call a step.          *)
(***************************************************************************)
NoTask ==
    [fn |-> "none", text |-> <<>>, sentences |-> <<>>, diarization_data |-> <<>>,
     status |-> "none", answered |-> FALSE, usable |-> FALSE, ngen |-> 0,
     unparsed |-> 0, truncated |-> 0, trail |-> <<>>]

\* the call made and how it ended; the value goes to task_val
Ended(fn, text, sents, diarization_data, r) ==
    /\ task' = [fn |-> fn, text |-> text, sentences |-> sents,
                diarization_data |-> diarization_data, status |-> r.status,
                answered |-> r.answered, usable |-> r.usable, ngen |-> r.ngen,
                unparsed |-> r.unparsed, truncated |-> r.truncated,
                trail |-> r.trail]
    /\ task_val' = [val |-> r.val, exc |-> r.exc]
    /\ ntask' = ntask + 1

CallClean(text) ==
    /\ ntask < MaxCalls
    /\ \E r \in clean_transcript(text, gemini_client["clean"], openai_enabled, gemini_key) :
          /\ Ended("clean_transcript", text, <<>>, <<>>, r)
          /\ gemini_client' = [gemini_client EXCEPT !["clean"] = r.memo]
    /\ UNCHANGED <<probevars, envvars, gw, ninv, pipevars>>

CallDiarize(text) ==
    /\ ntask < MaxCalls
    /\ \E r \in diarize(text, gemini_client["diarization"], openai_enabled, gemini_key) :
          /\ Ended("diarize", text, <<>>, <<>>, r)
          /\ gemini_client' = [gemini_client EXCEPT !["diarization"] = r.memo]
    /\ UNCHANGED <<probevars, envvars, gw, ninv, pipevars>>

CallSummarize(sents) ==
    /\ ntask < MaxCalls
    /\ \E r \in summarize(sents, gemini_client["summarization"],
                          openai_enabled, gemini_key) :
          /\ Ended("summarize", <<>>, sents, <<>>, r)
          /\ gemini_client' = [gemini_client EXCEPT !["summarization"] = r.memo]
    /\ UNCHANGED <<probevars, envvars, gw, ninv, pipevars>>

CallExtract(sents, diarization_data) ==
    /\ ntask < MaxCalls
    /\ \E r \in extract_actions_and_decisions(sents, diarization_data,
                                              transformers_installed) :
          Ended("extract_actions_and_decisions", <<>>, sents, diarization_data, r)
    /\ UNCHANGED <<probevars, envvars, gemini_client, gw, ninv, pipevars>>

(***************************************************************************)
(* POST /process-full.  The handler runs on the event loop; the task       *)
(* functions run in worker threads (asyncio.to_thread), each a step that   *)
(* ends when its future resolves.                                          *)
(***************************************************************************)
NoOut == [status |-> "none", val |-> <<>>, exc |-> "-"]
NoWork == [st |-> "none", arg |-> <<>>, out |-> NoOut]
NoCall == [called |-> FALSE, sentences |-> <<>>, diarization_data |-> <<>>]
NoResponse == [status |-> 0]

\* raise HTTPException(status_code=..., detail=...)
HTTPError(code, detail) == [status |-> code, detail |-> detail]

Enter(s) ==
    /\ stage' = s
    /\ stages' = Append(stages, s)

Reject(code, detail) ==
    /\ Enter("Error")
    /\ response' = HTTPError(code, detail)

\* the first argument of asyncio.to_thread(diarize, cleaned), and a variant
diarize_input_raw(raw, clean) == raw
diarize_input(raw, clean) == clean

\* a variant that awaits summarize before it schedules diarize
DiarizeScheduled_AfterSummarize(s) == s.st = "done"
\* gather wraps both coroutines in tasks at once: the first step of
\* diarize is in the ready queue from the call of gather on
DiarizeScheduled(s) == TRUE

return_exceptions_off == FALSE
\* return_exceptions=True
return_exceptions == TRUE

\* asyncio.gather of the two tasks once both are done: the results in
\* order, an exception being a result like any other with
\* return_exceptions, the first exception raised without it
gather(s_out, d_out, ret_exc) ==
    IF ~ret_exc /\ (s_out.status = "raise" \/ d_out.status = "raise")
    THEN [status |-> "raise",
          exc |-> IF s_out.status = "raise" THEN s_out.exc ELSE d_out.exc]
    ELSE [status |-> "return", exc |-> "-"]

\* a variant of the test that looks for the empty text only
IsBlank_EmptyOnly(raw) == raw = <<>>

\* not raw_text or not raw_text.strip()
IsBlank(raw) == raw = <<>> \/ Strip(raw) = <<>>

\* Step 1: the raw text, from the audio (transcribe_audio) or the file;
\* transcribe_audio returns a transcript that is not blank, or raises
Receive(kind, text) ==
    /\ stage \in {"Idle", "Done", "Error"}
    /\ nreq < MaxRequests
    /\ kind = "audio" => Strip(text) # <<>>
    /\ nreq' = nreq + 1
    /\ probe' = [fn |-> "/process-full", kind |-> kind, text |-> text]
    /\ cleaned' = <<>>
    /\ sentences' = <<>>
    /\ sumTask' = NoWork
    /\ diaTask' = NoWork
    /\ structured_summary' = EmptyDict
    /\ segments' = <<>>
    /\ extract_call' = NoCall
    /\ extracted' = Extraction(<<>>, <<>>)
    /\ backend_ok' = FALSE
    /\ CASE kind = "none" ->
              /\ stage' = "Error"
              /\ raw_text' = <<>>
              /\ response' = HTTPError(400, "No input file provided")
         [] kind = "audio_fails" ->
              /\ stage' = "Error"
              /\ raw_text' = <<>>
              /\ response' = HTTPError(500, "Processing failed")
         [] IsBlank(text) ->
              /\ stage' = "Error"
              /\ raw_text' = text
              /\ response' = HTTPError(400, "No content found in the uploaded file")
         [] OTHER ->
              /\ stage' = "Received"
              /\ raw_text' = text
              /\ response' = NoResponse
    /\ stages' = <<stage'>>
    /\ UNCHANGED <<probe_out, envvars, gemini_client, gw, ninv, taskvars>>

\* Step 2: clean_transcript in a thread, then the split into sentences
Clean ==
    /\ stage = "Received"
    /\ \E r \in clean_transcript(raw_text, gemini_client["clean"],
                                 openai_enabled, gemini_key) :
          /\ gemini_client' = [gemini_client EXCEPT !["clean"] = r.memo]
          /\ backend_ok' = (backend_ok \/ r.answered)
          /\ IF r.status = "raise"
             THEN /\ Reject(500, "Processing failed")
                  /\ UNCHANGED <<cleaned, sentences>>
             ELSE /\ cleaned' = r.val
                  /\ sentences' = Sentences(r.val)
                  /\ IF Sentences(r.val) = <<>>
                     THEN Reject(400, "No meaningful content found after processing")
                     ELSE Enter("Cleaned") /\ UNCHANGED response
    /\ UNCHANGED <<probevars, envvars, gw, ninv, taskvars, raw_text, sumTask, diaTask,
                   structured_summary, segments, extract_call, extracted, nreq>>

\* Step 3: the two coroutines are made and handed to asyncio.gather
Dispatch ==
    /\ stage = "Cleaned"
    /\ sumTask' = [st |-> "created", arg |-> sentences, out |-> NoOut]
    /\ diaTask' = [st |-> "created", arg |-> diarize_input(raw_text, cleaned),
                   out |-> NoOut]
    /\ Enter("SummarizingDiarizing")
    /\ UNCHANGED <<probevars, envvars, gemini_client, gw, ninv, taskvars, raw_text, cleaned,
                   sentences, structured_summary, segments, extract_call,
                   extracted, response, backend_ok, nreq>>

\* the ready queue of the event loop is first in, first out
SummarizeReady == sumTask.st = "created"
DiarizeReady == diaTask.st = "created" /\ DiarizeScheduled(sumTask)

StartSummarize ==
    /\ stage = "SummarizingDiarizing"
    /\ SummarizeReady
    /\ sumTask' = [sumTask EXCEPT !.st = "running"]
    /\ UNCHANGED <<probevars, envvars, gemini_client, gw, ninv, taskvars, stage, stages,
                   raw_text, cleaned, sentences, diaTask, structured_summary,
                   segments, extract_call, extracted, response, backend_ok, nreq>>

StartDiarize ==
    /\ stage = "SummarizingDiarizing"
    /\ DiarizeReady
    /\ ~SummarizeReady
    /\ diaTask' = [diaTask EXCEPT !.st = "running"]
    /\ UNCHANGED <<probevars, envvars, gemini_client, gw, ninv, taskvars, stage, stages,
                   raw_text, cleaned, sentences, sumTask, structured_summary,
                   segments, extract_call, extracted, response, backend_ok, nreq>>

\* the thread of summarize ends and its future resolves on the loop
CompleteSummarize ==
    /\ stage = "SummarizingDiarizing"
    /\ sumTask.st = "running"
    /\ ~DiarizeReady
    /\ \E r \in summarize(sumTask.arg, gemini_client["summarization"],
                          openai_enabled, gemini_key) :
          /\ sumTask' = [sumTask EXCEPT !.st = "done",
                                        !.out = [status |-> r.status, val |-> r.val,
                                                 exc |-> r.exc]]
          /\ gemini_client' = [gemini_client EXCEPT !["summarization"] = r.memo]
          /\ backend_ok' = (backend_ok \/ r.answered)
    /\ UNCHANGED <<probevars, envvars, gw, ninv, taskvars, stage, stages, raw_text, cleaned,
                   sentences, diaTask, structured_summary, segments,
                   extract_call, extracted, response, nreq>>

CompleteDiarize ==
    /\ stage = "SummarizingDiarizing"
    /\ diaTask.st = "running"
    /\ ~SummarizeReady
    /\ \E r \in diarize(diaTask.arg, gemini_client["diarization"],
                        openai_enabled, gemini_key) :
          /\ diaTask' = [diaTask EXCEPT !.st = "done",
                                        !.out = [status |-> r.status, val |-> r.val,
                                                 exc |-> r.exc]]
          /\ gemini_client' = [gemini_client EXCEPT !["diarization"] = r.memo]
          /\ backend_ok' = (backend_ok \/ r.answered)
    /\ UNCHANGED <<probevars, envvars, gw, ninv, taskvars, stage, stages, raw_text, cleaned,
                   sentences, sumTask, structured_summary, segments,
                   extract_call, extracted, response, nreq>>

\* gather returns; the exception checks; Step 4: extraction in a thread
Extract ==
    /\ stage = "SummarizingDiarizing"
    /\ sumTask.st = "done"
    /\ diaTask.st = "done"
    /\ LET both == gather(sumTask.out, diaTask.out, return_exceptions)
           summary == IF sumTask.out.status = "raise" THEN EmptyDict
                      ELSE sumTask.out.val
           segs == IF diaTask.out.status = "raise" THEN <<>> ELSE diaTask.out.val
       IN  IF both.status = "raise"
           THEN /\ Reject(500, "Processing failed")
                /\ UNCHANGED <<structured_summary, segments, extract_call,
                               extracted, backend_ok>>
           ELSE \E x \in extract_actions_and_decisions(sentences, segs,
                                                       transformers_installed) :
                   /\ structured_summary' = summary
                   /\ segments' = segs
                   /\ extract_call' = [called |-> TRUE, sentences |-> sentences,
                                       diarization_data |-> segs]
                   /\ backend_ok' = (backend_ok \/ x.answered)
                   /\ IF x.status = "raise"
                      THEN Reject(500, "Processing failed") /\ UNCHANGED extracted
                      ELSE /\ extracted' = x.val
                           /\ Enter("Extracted")
                           /\ UNCHANGED response
    /\ UNCHANGED <<probevars, envvars, gemini_client, gw, ninv, taskvars, raw_text, cleaned,
                   sentences, sumTask, diaTask, nreq>>

\* the response dict
Respond ==
    /\ stage = "Extracted"
    /\ response' = [status |-> 200,
                    transcript |-> cleaned,
                    structured_summary |-> structured_summary,
                    action_items |-> extracted.actions,
                    decisions |-> extracted.decisions,
                    diarization |-> segments]
    /\ Enter("Done")
    /\ UNCHANGED <<probevars, envvars, gemini_client, gw, ninv, taskvars, raw_text, cleaned,
                   sentences, sumTask, diaTask, structured_summary, segments,
                   extract_call, extracted, backend_ok, nreq>>

(***************************************************************************)
(* POST /summarize and POST /extract, each request a step.                 *)
(***************************************************************************)
\* return {...}: the answer of a handler that ended without an exception
HTTPOk(body) == [status |-> 200, body |-> body]

\* except Exception as e: raise HTTPException(status_code=500, ...), which
\* also takes the HTTPException raised inside the try block
ExceptException(raised, detail) == HTTPError(500, detail)

\* except HTTPException: raise, in front of except Exception
ExceptHTTPException(raised, detail) ==
    IF "status" \in DOMAIN raised THEN raised ELSE HTTPError(500, detail)

NewRequest(fn, text) ==
    /\ stage \in {"Idle", "Done", "Error"}
    /\ nreq < MaxRequests
    /\ nreq' = nreq + 1
    /\ probe' = [fn |-> fn, text |-> text]

\* summarize_text
SummarizeText(text) ==
    /\ NewRequest("/summarize", text)
    /\ LET sents == Sentences(text)
       IN  IF sents = <<>>
           THEN /\ probe_out' = ExceptException(
                        HTTPError(400, "No meaningful content found"),
                        "Summarization failed")
                /\ UNCHANGED gemini_client
           ELSE \E r \in summarize(sents, gemini_client["summarization"],
                                   openai_enabled, gemini_key) :
                   /\ gemini_client' =
                          [gemini_client EXCEPT !["summarization"] = r.memo]
                   /\ probe_out' =
                          IF r.status = "raise"
                          THEN ExceptException([exc |-> r.exc], "Summarization failed")
                          ELSE HTTPOk(r.val)
    /\ UNCHANGED <<envvars, gw, ninv, taskvars, stage, stages, raw_text, cleaned,
                   sentences, sumTask, diaTask, structured_summary, segments,
                   extract_call, extracted, response, backend_ok>>

\* extract_content
ExtractContent(text) ==
    /\ NewRequest("/extract", text)
    /\ LET sents == Sentences(text)
       IN  IF sents = <<>>
           THEN /\ probe_out' = ExceptHTTPException(
                        HTTPError(400, "No meaningful content found"),
                        "Extraction failed")
                /\ UNCHANGED gemini_client
           ELSE \E c \in clean_transcript(text, gemini_client["clean"],
                                          openai_enabled, gemini_key) :
                \E d \in diarize(c.val, gemini_client["diarization"],
                                 openai_enabled, gemini_key) :
                \E x \in extract_actions_and_decisions(sents, d.val,
                                                       transformers_installed) :
                   /\ gemini_client' =
                          [gemini_client EXCEPT !["clean"] = c.memo,
                                                !["diarization"] = d.memo]
                   /\ probe_out' =
                          IF "raise" \in {c.status, d.status, x.status}
                          THEN ExceptHTTPException([exc |-> "Exception"],
                                                   "Extraction failed")
                          ELSE HTTPOk(x.val)
    /\ UNCHANGED <<envvars, gw, ninv, taskvars, stage, stages, raw_text, cleaned,
                   sentences, sumTask, diaTask, structured_summary, segments,
                   extract_call, extracted, response, backend_ok>>

vars == <<envvars, probevars, gemini_client, gw, ninv, taskvars, pipevars>>

InitEnv ==
    /\ openai_enabled \in BOOLEAN
    /\ gemini_key \in BOOLEAN
    /\ transformers_installed \in BOOLEAN

InitGateway ==
    /\ gemini_client = [m \in Modules |-> None]
    /\ gw = IdleGw
    /\ ninv = 0

InitTasks ==
    /\ task = NoTask
    /\ task_val = [val |-> <<>>, exc |-> "-"]
    /\ ntask = 0

InitPipeline ==
    /\ stage = "Idle"
    /\ stages = <<>>
    /\ raw_text = <<>>
    /\ cleaned = <<>>
    /\ sentences = <<>>
    /\ sumTask = NoWork
    /\ diaTask = NoWork
    /\ structured_summary = EmptyDict
    /\ segments = <<>>
    /\ extract_call = NoCall
    /\ extracted = Extraction(<<>>, <<>>)
    /\ response = NoResponse
    /\ backend_ok = FALSE
    /\ nreq = 0

NoProbe == [fn |-> "none"]

InitProbe ==
    /\ probe = NoProbe
    /\ probe_out = NoProbe

Init == InitEnv /\ InitProbe /\ InitGateway /\ InitTasks /\ InitPipeline

NextGateway ==
    \/ \E mod \in Modules : Generate(mod)
    \/ OpenaiCall
    \/ GeminiEntry
    \/ MemoCall
    \/ LoopCall
    \/ RetryCall
    \/ PostList
    \/ PostLoopCall

SpecGateway == Init /\ [][NextGateway]_vars

\* the arguments the task functions are called with
SentenceLists == {Sentences(t) : t \in Texts}
SegmentLists == {_diarize_with_patterns(t) : t \in Texts}

NextTasks ==
    \/ \E text \in Texts : CallClean(text)
    \/ \E text \in Texts : CallDiarize(text)
    \/ \E ss \in SentenceLists : CallSummarize(ss)
    \/ \E ss \in SentenceLists, dd \in SegmentLists : CallExtract(ss, dd)

SpecTasks == Init /\ [][NextTasks]_vars

InputKinds == {"none", "audio_fails", "audio", "transcript"}

NextPipeline ==
    \/ \E kind \in InputKinds, text \in RequestTexts : Receive(kind, text)
    \/ Clean
    \/ Dispatch
    \/ StartSummarize
    \/ StartDiarize
    \/ CompleteSummarize
    \/ CompleteDiarize
    \/ Extract
    \/ Respond

Spec == Init /\ [][NextPipeline]_vars

\* the three endpoints that look for content before they work
NextEndpoints ==
    \/ NextPipeline
    \/ \E text \in Texts : SummarizeText(text)
    \/ \E text \in Texts : ExtractContent(text)

SpecEndpoints == Init /\ [][NextEndpoints]_vars

(***************************************************************************)
(* _generate_with_gemini against a backend whose behaviour is fixed: each  *)
(* model answers every call in the same way and genai.list_models() gives  *)
(* the same listing each time.  One call is made with _gemini_client unset *)
(* and one with it set to a handle, against the same behaviour.            *)
(***************************************************************************)
\* the modules tried: clean.py and diarization.py have the same gateway code
ProbedModules == {"clean", "diarization"}

\* t follows s under the behaviour beh and the listing L
Obeys(s, t, beh, L) ==
    /\ Len(t.g.calls) > Len(s.g.calls) =>
          t.g.last = beh[t.g.calls[Len(t.g.calls)][2]]
    /\ s.g.pc = "gemini" =>
          t.g.names = model_names(s.g.mod) \o ListingSeq(L)
    /\ s.g.pc = "post" => t.g.avail = ListingSeq(L \ SeqRange(s.g.names))

RECURSIVE FixedClosure(_, _, _)
FixedClosure(S, beh, L) ==
    LET live == {s \in S : s.g.pc # "done"}
    IN  IF live = {} THEN S
        ELSE FixedClosure(
                (S \ live) \cup
                    UNION {{t \in GSucc(s, TRUE) : Obeys(s, t, beh, L)} : s \in live},
                beh, L)

\* the ways the call can end: what it returns or raises and the calls it made
FixedRuns(mod, memo, beh, L) ==
    {[kind |-> s.g.res.kind, calls |-> s.g.calls]
        : s \in FixedClosure({[g |-> GStart(mod, FALSE), memo |-> memo]}, beh, L)}

\* the behaviours of the models that can be called
Behaviours(mod, memo, L) ==
    [SeqRange(model_names(mod)) \cup L \cup {memo} -> {"ok"} \cup GeminiFailures]

\* the two calls, made against one behaviour
ProbeHandle ==
    /\ probe.fn = "_generate_with_gemini"
    /\ probe_out = NoProbe
    /\ probe_out' = [fn |-> "_generate_with_gemini",
                     unset |-> FixedRuns(probe.mod, None, probe.beh, probe.listed),
                     set |-> FixedRuns(probe.mod, probe.memo, probe.beh, probe.listed)]
    /\ UNCHANGED <<probe, envvars, gemini_client, gw, ninv, taskvars, pipevars>>

InitHandle ==
    /\ openai_enabled = FALSE
    /\ gemini_key = TRUE
    /\ transformers_installed = FALSE
    /\ \E mod \in ProbedModules, L \in SUBSET ListedModels :
          \E memo \in SeqRange(model_names(mod)) \cup ListedModels :
             \E beh \in Behaviours(mod, memo, L) :
                probe = [fn |-> "_generate_with_gemini", mod |-> mod,
                         memo |-> memo, listed |-> L, beh |-> beh]
    /\ probe_out = NoProbe
    /\ InitGateway /\ InitTasks /\ InitPipeline

NextHandle == ProbeHandle

SpecHandle == InitHandle /\ [][NextHandle]_vars

(***************************************************************************)
(* What one attempt of summarize does with the text of an answer, per      *)
(* character (summarization.py 408-459).                                   *)
(***************************************************************************)
\* the longest answer tried
MaxAnswer == 5

\* the backquote, which a string of this module cannot hold, is written "~"
Fence == "~~~"

AnswerChars == {"{", "}", "\"", "\\", "a", " ", "\n", "~"}

\* str.rstrip()
StrRStrip(s) ==
    LET inked == {j \in 1..Len(s) : At(s, j) \notin Spaces}
    IN  IF inked = {} THEN "" ELSE SubSeq(s, 1, Greatest(inked))

\* s.endswith(sub)
EndsWith(s, sub) == StartsAt(s, Len(s) - Len(sub) + 1, sub)

\* if s.startswith(prefix): s = s[len(prefix):]
WithoutPrefix(s, prefix) ==
    IF StartsAt(s, 1, prefix) THEN From(s, Len(prefix) + 1) ELSE s

\* if s.endswith(suffix): s = s[:-len(suffix)]
WithoutSuffix(s, suffix) ==
    IF EndsWith(s, suffix) THEN SubSeq(s, 1, Len(s) - Len(suffix)) ELSE s

\* the text without its markdown fence
Unfenced(text) ==
    StrStrip(WithoutSuffix(WithoutPrefix(WithoutPrefix(StrStrip(text), Fence \o "json"),
                                         Fence),
                           Fence))

\* s[open - 1:] up to its last "}", when one follows the "{" at open
Braced(s, open) ==
    LET closes == {j \in (open + 1)..Len(s) : At(s, j) = "}"}
    IN  IF open = 0 \/ closes = {} THEN s ELSE SubSeq(s, open, Greatest(closes))

\* re.search(r'\{.*\}', s, re.DOTALL): group(0) when it matches
JsonMatch(s) == Braced(s, Find(s, "{", 1))

\* s.split('\n'), from the character i on
RECURSIVE StrSplitLines(_, _)
StrSplitLines(s, i) ==
    LET br == Find(s, "\n", i)
    IN  IF br = 0 THEN <<From(s, i)>>
        ELSE <<SubSeq(s, i, br - 1)>> \o StrSplitLines(s, br + 1)

\* '\n'.join(lines)
JoinLines(lines) ==
    Joined([k \in 1..(2 * Len(lines) - 1) |->
               IF k % 2 = 1 THEN lines[(k + 1) \div 2] ELSE "\n"],
           1, 2 * Len(lines) - 1)

\* line.count('"') - line.count('\\"')
quote_count(line) ==
    Cardinality({j \in 1..Len(line) : At(line, j) = "\""})
        - Cardinality({j \in 1..Len(line) : StartsAt(line, j, "\\\"")})

\* in_string after the loop over the lines
in_string(lines) ==
    Cardinality({i \in DOMAIN lines : quote_count(lines[i]) % 2 = 1}) % 2 = 1

\* fixed_lines after "if in_string: fixed_lines[-1] = fixed_lines[-1].rstrip() + '"'"
StringClosed(lines, open) ==
    IF open THEN [lines EXCEPT ![Len(lines)] = StrRStrip(@) \o "\""] ELSE lines

\* cleaned_text and fixed_lines after "if not fixed_lines[-1].rstrip().endswith('}')";
\* last_brace is cleaned_text.rfind('}') + 1
ObjectClosed(cleaned_text, fixed_lines, last_brace) ==
    IF EndsWith(StrRStrip(fixed_lines[Len(fixed_lines)]), "}")
    THEN [cleaned_text |-> cleaned_text, fixed_lines |-> fixed_lines]
    ELSE IF last_brace - 1 > 0
    THEN [cleaned_text |-> SubSeq(cleaned_text, 1, last_brace),
          fixed_lines |-> fixed_lines]
    ELSE [cleaned_text |-> cleaned_text, fixed_lines |-> Append(fixed_lines, "}")]

\* s.rfind(sub) + 1
RFind(s, sub) ==
    LET places == {j \in 1..Len(s) : StartsAt(s, j, sub)}
    IN  IF places = {} THEN 0 ELSE Greatest(places)

\* the else branch of lines 428-457: the text that line 457 leaves in
\* cleaned_text
Repaired(cleaned_text) ==
    LET lines == StrSplitLines(cleaned_text, 1)
    IN  JoinLines(ObjectClosed(cleaned_text, StringClosed(lines, in_string(lines)),
                               RFind(cleaned_text, "}")).fixed_lines)

\* one attempt on a text: what becomes of it
\*   parse   json.loads is called
\*   cut     the text did not end with "}"
\*   handed  the text json.loads is called with
Attempted(text, attempt, cleaned_text) ==
    IF text = "" THEN [parse |-> FALSE, cut |-> FALSE, handed |-> ""]
    ELSE IF EndsWith(StrRStrip(cleaned_text), "}")
    THEN [parse |-> TRUE, cut |-> FALSE, handed |-> cleaned_text]
    ELSE IF MayRetry(attempt)
    THEN [parse |-> FALSE, cut |-> TRUE, handed |-> ""]
    ELSE [parse |-> TRUE, cut |-> TRUE, handed |-> Repaired(cleaned_text)]

AttemptProbe ==
    /\ probe.fn = "summarize"
    /\ probe_out = NoProbe
    /\ probe_out' = [fn |-> "summarize"] @@
                    Attempted(probe.text, probe.attempt, JsonMatch(Unfenced(probe.text)))
    /\ UNCHANGED <<probe, envvars, gemini_client, gw, ninv, taskvars, pipevars>>

InitAttempt ==
    /\ openai_enabled = FALSE
    /\ gemini_key = FALSE
    /\ transformers_installed = FALSE
    /\ \E n \in 0..MaxAnswer : \E text \in [1..n -> AnswerChars] :
       \E attempt \in 0..max_retries :
          probe = [fn |-> "summarize", text |-> Joined(text, 1, n), attempt |-> attempt]
    /\ probe_out = NoProbe
    /\ InitGateway /\ InitTasks /\ InitPipeline

NextAttempt == AttemptProbe

SpecAttempt == InitAttempt /\ [][NextAttempt]_vars

(***************************************************************************)
(* _clean_with_patterns on its own: applied to a text, and to its result.  *)
(***************************************************************************)
\* the longest text tried
MaxNorm == 5

NormTokens == {"um", "UM", "you", "know", "w", " ", "."}

Normalize ==
    /\ probe.fn = "_clean_with_patterns"
    /\ probe_out = NoProbe
    /\ probe_out' = [fn |-> "_clean_with_patterns",
                     once |-> _clean_with_patterns(probe.text),
                     twice |-> _clean_with_patterns(_clean_with_patterns(probe.text))]
    /\ UNCHANGED <<probe, envvars, gemini_client, gw, ninv, taskvars, pipevars>>

InitNormalize ==
    /\ openai_enabled = FALSE
    /\ gemini_key = FALSE
    /\ transformers_installed = FALSE
    /\ \E n \in 0..MaxNorm : \E text \in [1..n -> NormTokens] :
          probe = [fn |-> "_clean_with_patterns", text |-> text]
    /\ probe_out = NoProbe
    /\ InitGateway /\ InitTasks /\ InitPipeline

NextNormalize == Normalize

SpecNormalize == InitNormalize /\ [][NextNormalize]_vars

(***************************************************************************)
(* What clean_transcript does with the text of an answer, per character    *)
(* (clean.py 325-361).                                                     *)
(***************************************************************************)
\* the longest answer and the longest transcript tried
MaxReply == 5
MaxInput == 2

ReplyChars == {"a", " ", "\n", "~"}

\* if lines[0].startswith("```"): lines = lines[1:]
FirstFenceDropped(lines) ==
    IF StartsAt(lines[1], 1, Fence) THEN Tail(lines) ELSE lines

\* if lines and lines[-1].strip() == "```": lines = lines[:-1]
LastFenceDropped(lines) ==
    IF lines # <<>> /\ StrStrip(lines[Len(lines)]) = Fence
    THEN SubSeq(lines, 1, Len(lines) - 1) ELSE lines

\* cleaned_text after "if cleaned_text.startswith("```"): ..."
CodeBlockRemoved(cleaned_text) ==
    IF StartsAt(cleaned_text, 1, Fence)
    THEN StrStrip(JoinLines(LastFenceDropped(FirstFenceDropped(
                     StrSplitLines(cleaned_text, 1)))))
    ELSE cleaned_text

\* a variant of the test that accepts a text of any length
Fits_AnyLength(cleaned_text, text) == Len(cleaned_text) > 0

\* len(cleaned_text) > 0 and len(cleaned_text) <= len(text) * 1.5
Fits(cleaned_text, text) ==
    Len(cleaned_text) > 0 /\ 2 * Len(cleaned_text) <= 3 * Len(text)

\* return _clean_with_patterns(text)
PatternResult(text, called) ==
    [val |-> Concat(_clean_with_patterns(text)), usable |-> FALSE, called |-> called]

\* the text the backend gave, when it is the one to return
Accepted(text, cleaned_text) ==
    IF Fits(cleaned_text, Concat(text))
    THEN [val |-> cleaned_text, usable |-> TRUE, called |-> TRUE]
    ELSE PatternResult(text, TRUE)

\* clean_transcript(text) when _generate_with_llm ends with res
\*   val     the text returned
\*   usable  it is the backend's
\*   called  _generate_with_llm was called
CleanReplied(text, res) ==
    IF Concat(text) = "" THEN [val |-> "", usable |-> FALSE, called |-> FALSE]
    ELSE IF res.kind = "raise" \/ res.val = "" THEN PatternResult(text, TRUE)
    ELSE Accepted(text, CodeBlockRemoved(StrStrip(res.val)))

CleanProbe ==
    /\ probe.fn = "clean_transcript"
    /\ probe_out = NoProbe
    /\ probe_out' = [fn |-> "clean_transcript"] @@ CleanReplied(probe.text, probe.res)
    /\ UNCHANGED <<probe, envvars, gemini_client, gw, ninv, taskvars, pipevars>>

\* what _generate_with_llm can end with: an exception or a text
CleanAnswers ==
    {RaiseRes("RuntimeError"), RaiseRes("Other")}
        \cup {TextRes(Joined(a, 1, Len(a)))
                : a \in UNION {[1..n -> ReplyChars] : n \in 0..MaxReply}}

InitCleanReply ==
    /\ openai_enabled = FALSE
    /\ gemini_key = FALSE
    /\ transformers_installed = FALSE
    /\ \E n \in 0..MaxInput : \E text \in [1..n -> NormTokens] : \E res \in CleanAnswers :
          probe = [fn |-> "clean_transcript", text |-> text, res |-> res]
    /\ probe_out = NoProbe
    /\ InitGateway /\ InitTasks /\ InitPipeline

NextCleanReply == CleanProbe

SpecCleanReply == InitCleanReply /\ [][NextCleanReply]_vars

(***************************************************************************)
(* _diarize_with_patterns on its own, applied to a transcript made of      *)
(* units: sentences and lines, each with a word of its own, the k-th unit  *)
(* with the word "w<k>".                                                    *)
(***************************************************************************)
\* the most units of a transcript
MaxUnits == 6

UnitForms == {"sentence", "line", "Ann", "Bob", "Speaker 1", "Speaker 2"}

Unit(form, k) ==
    CASE form = "sentence" -> <<UnitWord(k), ".", " ">>
      [] form = "line" -> <<UnitWord(k), "\n">>
      [] form \in {"Ann", "Bob"} -> <<form, " ", "will", " ", UnitWord(k), ".", " ">>
      [] form \in {"Speaker 1", "Speaker 2"} -> <<form, " ", UnitWord(k), "\n">>

RECURSIVE Transcript(_, _)
Transcript(forms, k) ==
    IF k > Len(forms) THEN <<>>
    ELSE Unit(forms[k], k) \o Transcript(forms, k + 1)

DiarizePatterns ==
    /\ probe.fn = "_diarize_with_patterns"
    /\ probe_out = NoProbe
    /\ probe_out' = [fn |-> "_diarize_with_patterns",
                     segments |-> _diarize_with_patterns(probe.text)]
    /\ UNCHANGED <<probe, envvars, gemini_client, gw, ninv, taskvars, pipevars>>

InitDiarize ==
    /\ openai_enabled = FALSE
    /\ gemini_key = FALSE
    /\ transformers_installed = FALSE
    /\ \E n \in 0..MaxUnits : \E forms \in [1..n -> UnitForms] :
          probe = [fn |-> "_diarize_with_patterns", text |-> Transcript(forms, 1)]
    /\ probe_out = NoProbe
    /\ InitGateway /\ InitTasks /\ InitPipeline

NextDiarize == DiarizePatterns

SpecDiarize == InitDiarize /\ [][NextDiarize]_vars

(***************************************************************************)
(* _diarize_with_patterns on transcripts without a speaker: n sentences,   *)
(* the k-th one the word "w<k>", with a separator after each full stop.    *)
(***************************************************************************)
\* the most sentences of such a transcript
MaxChunked == 21

Separators == {<<>>, <<" ">>, <<"\n">>}

\* the sentences k, k + 1, ..., n, each followed by a full stop and a separator
RECURSIVE Plain(_, _, _)
Plain(k, n, sep) ==
    IF k > n THEN <<>>
    ELSE <<UnitWord(k), ".">> \o sep \o Plain(k + 1, n, sep)

\* the text without its last full stop and what follows it
Unstopped(text, sep) ==
    IF text = <<>> THEN text ELSE SubSeq(text, 1, Len(text) - 1 - Len(sep))

InitChunk ==
    /\ openai_enabled = FALSE
    /\ gemini_key = FALSE
    /\ transformers_installed = FALSE
    /\ \E n \in 0..MaxChunked : \E sep \in Separators : \E stopped \in BOOLEAN :
          probe = [fn |-> "_diarize_with_patterns", n |-> n,
                   text |-> IF stopped THEN Plain(1, n, sep)
                            ELSE Unstopped(Plain(1, n, sep), sep)]
    /\ probe_out = NoProbe
    /\ InitGateway /\ InitTasks /\ InitPipeline

NextChunk == DiarizePatterns

SpecChunk == InitChunk /\ [][NextChunk]_vars

(***************************************************************************)
(* transcribe_audio on its own, one request to Speechmatics per step.      *)
(* probe_out is the call in progress:                                      *)
(*   pc     "key", "upload", "poll" or "done"                              *)
(*   polls  the GET requests made   last   code and body of the latest one  *)
(*   status, val, exc   how the call ended                                 *)
(***************************************************************************)
\* max_attempts = 60
max_attempts == 60

\* what requests.post gives: 201 with a job id, 201 without one, another
\* status, or an exception (the file cannot be opened, the network fails)
UploadOutcomes == {"201", "no_id", "rejected", "exception"}

\* what requests.get gives: a status code, or an exception
PollStatuses == {"200", "404", "400", "500", "exception"}
\* r.text of a 200
PollBodies == {<<>>, <<" ">>, <<"\n", " ">>, <<"w">>, <<" ", "w", "\n">>}

SttCall(pc, polls, last) ==
    [fn |-> "transcribe_audio", pc |-> pc, polls |-> polls, last |-> last,
     status |-> "none", val |-> <<>>, exc |-> "-"]

SttReturn(call, transcript) ==
    [call EXCEPT !.pc = "done", !.status = "return", !.val = transcript]

SttRaise(call, e) == [call EXCEPT !.pc = "done", !.status = "raise", !.exc = e]

\* a variant of the except clause that lets the exception through
SttExcept_Reraise(call, e) == SttRaise(call, e)

\* except Exception as e: raise ValueError(...)
SttExcept(call, e) == SttRaise(call, "ValueError")

\* if not speechmatics_api_key: raise ValueError, before the try
SttCheckKey ==
    /\ probe.fn = "transcribe_audio"
    /\ probe_out = NoProbe
    /\ probe_out' = IF probe.api_key THEN SttCall("upload", 0, <<"none", <<>>>>)
                    ELSE SttRaise(SttCall("key", 0, <<"none", <<>>>>), "ValueError")
    /\ UNCHANGED <<probe, envvars, gemini_client, gw, ninv, taskvars, pipevars>>

\* Step 1: Upload file
SttUpload ==
    /\ probe.fn = "transcribe_audio"
    /\ probe_out # NoProbe /\ probe_out.pc = "upload"
    /\ \E o \in UploadOutcomes :
          probe_out' =
             CASE o = "201" -> [probe_out EXCEPT !.pc = "poll"]
               [] o = "exception" -> SttExcept(probe_out, "OSError")
               [] OTHER -> SttExcept(probe_out, "ValueError")
    /\ UNCHANGED <<probe, envvars, gemini_client, gw, ninv, taskvars, pipevars>>

\* Step 2: one turn of for attempt in range(max_attempts)
SttPoll ==
    /\ probe.fn = "transcribe_audio"
    /\ probe_out # NoProbe /\ probe_out.pc = "poll"
    /\ probe_out.polls < max_attempts
    /\ \E code \in PollStatuses, body \in PollBodies :
          LET call == [probe_out EXCEPT !.polls = @ + 1,
                                        !.last = IF code = "200" THEN <<code, body>>
                                                 ELSE <<code, <<>>>>]
              transcript == Strip(body)
          IN  probe_out' =
                 CASE code = "200" ->
                         IF transcript # <<>> THEN SttReturn(call, transcript) ELSE call
                   [] code = "404" -> call
                   [] code = "exception" -> SttExcept(call, "ConnectionError")
                   [] OTHER -> SttExcept(call, "ValueError")
    /\ UNCHANGED <<probe, envvars, gemini_client, gw, ninv, taskvars, pipevars>>

\* the loop is over: raise TimeoutError, inside the try
SttTimeout ==
    /\ probe.fn = "transcribe_audio"
    /\ probe_out # NoProbe /\ probe_out.pc = "poll"
    /\ probe_out.polls = max_attempts
    /\ probe_out' = SttExcept(probe_out, "TimeoutError")
    /\ UNCHANGED <<probe, envvars, gemini_client, gw, ninv, taskvars, pipevars>>

InitStt ==
    /\ openai_enabled = FALSE
    /\ gemini_key = FALSE
    /\ transformers_installed = FALSE
    /\ \E k \in BOOLEAN : probe = [fn |-> "transcribe_audio", api_key |-> k]
    /\ probe_out = NoProbe
    /\ InitGateway /\ InitTasks /\ InitPipeline

NextStt == SttCheckKey \/ SttUpload \/ SttPoll \/ SttTimeout

SpecStt == InitStt /\ [][NextStt]_vars

(***************************************************************************)
(* Two invocations of _generate_with_gemini of one module at a time, each  *)
(* in a thread of its own (asyncio.to_thread, one request each).  They     *)
(* share the module's _gemini_client; a step of a thread is a step of its  *)
(* invocation.  probe_out.inv holds the two invocations.                   *)
(***************************************************************************)
Threads == {1, 2}

\* one thread runs its invocation one step further; the check of the handle
\* (the last thing GeminiEntrySucc does) and the call through it (MemoSucc)
\* are steps apart
ThreadStep(t) ==
    /\ probe.fn = "threads"
    /\ probe_out.inv[t].pc # "done"
    /\ \E s \in GSucc([g |-> probe_out.inv[t], memo |-> gemini_client[probe.mod]],
                      gemini_key) :
          /\ probe_out' = [probe_out EXCEPT !.inv[t] = s.g]
          /\ gemini_client' = [gemini_client EXCEPT ![probe.mod] = s.memo]
    /\ UNCHANGED <<probe, envvars, gw, ninv, taskvars, pipevars>>

\* the handle is None or the model that an earlier invocation left in it
InitThreads ==
    /\ openai_enabled = FALSE
    /\ gemini_key = TRUE
    /\ transformers_installed = FALSE
    /\ \E mod \in ProbedModules :
          /\ probe = [fn |-> "threads", mod |-> mod]
          /\ probe_out = [fn |-> "threads",
                          inv |-> [t \in Threads |-> GStart(mod, FALSE)]]
          /\ \E handle \in {None} \cup SeqRange(model_names(mod)) :
                gemini_client = [m \in Modules |-> IF m = mod THEN handle ELSE None]
    /\ gw = IdleGw
    /\ ninv = 0
    /\ InitTasks /\ InitPipeline

NextThreads == \E t \in Threads : ThreadStep(t)

SpecThreads == InitThreads /\ [][NextThreads]_vars

(***************************************************************************)
(* extract_actions_and_decisions on its own: a list of sentences, the      *)
(* library installed or not, and what the local model replies.             *)
(***************************************************************************)
ExtractProbe ==
    /\ probe.fn = "extract_actions_and_decisions"
    /\ probe_out = NoProbe
    /\ \E r \in ExtractOn(probe.sentences, probe.installed, probe.reply) :
          probe_out' = [fn |-> "extract_actions_and_decisions", out |-> r]
    /\ UNCHANGED <<probe, envvars, gemini_client, gw, ninv, taskvars, pipevars>>

InitExtract ==
    /\ openai_enabled = FALSE
    /\ gemini_key = FALSE
    /\ transformers_installed \in BOOLEAN
    /\ \E sents \in ProbeSentences,
          reply \in IF transformers_installed THEN ProbeReplies
                    ELSE {Reply("raise", <<>>, <<>>)} :
          probe = [fn |-> "extract_actions_and_decisions", sentences |-> sents,
                   installed |-> transformers_installed, reply |-> reply]
    /\ probe_out = NoProbe
    /\ InitGateway /\ InitTasks /\ InitPipeline

NextExtract == ExtractProbe

SpecExtract == InitExtract /\ [][NextExtract]_vars

(***************************************************************************)
(* Properties of the gateway (SpecGateway)                                 *)
(***************************************************************************)
SlotCalls(g, slot) == Cardinality({i \in DOMAIN g.calls : g.calls[i][1] = slot})
ModelCalls(g, m) == Cardinality({i \in DOMAIN g.calls : g.calls[i] = <<"gemini", m>>})

\* the most calls one _generate_with_gemini can make: the handle, every
\* candidate, and in summarization.py the one retry and the late listing
GeminiCallBound(g) ==
    1 + Len(g.names) + (IF g.mod = "summarization" THEN 1 + MaxListed ELSE 0)

C8_UnknownPropagates ==
    (gw.calls # <<>> /\ gw.last = "unknown") =>
        (gw.pc = "done" /\ gw.res.kind = "raise")

\* an unclassified error of the OpenAI call does leave the invocation
C8_PrimaryWitness ==
    /\ gw.prim = "unknown"
    /\ gw.pc = "done"
    /\ gw.res = RaiseRes("Other")
    /\ Len(gw.calls) = 1

AuthOrQuota == {"auth", "keyerr", "authcode", "quota"}

\* C9 (as stated): after a call that failed with an authentication or quota
\* error the invocation does not call the same backend again, and such a
\* failure of the primary (or a primary without credential) leads into the
\* next slot.
C9_NoRetryOnSameBackend ==
    /\ [](gw.prim \in {"auth", "quota"} => gw.entries = 1)
    /\ []((gw.pc # "idle" /\ ~openai_enabled) => gw.entries = 1)
    /\ [][(gw.last \in AuthOrQuota /\ Len(gw'.calls) > Len(gw.calls))
            => gw'.calls[Len(gw'.calls)] # gw.calls[Len(gw.calls)]]_vars

\* the primary's part of C9 happens: fallback after an authentication error
C9_PrimaryWitness ==
    /\ gw.prim = "auth"
    /\ gw.pc = "done"
    /\ gw.entries = 1
    /\ SlotCalls(gw, "openai") = 1
    /\ SlotCalls(gw, "gemini") >= 1

\* C10 (as amended): in clean.py and diarization.py, after a 404 in the
\* Gemini slot the invocation stays in that slot and gives up only when
\* every candidate was tried; the loop tries each candidate once, so that a
\* model is called twice only when it was the stale memoized handle, and
\* never three times; OpenAI, which has one model, is called at most once
\* and first; the number of calls is bounded, so the iteration ends.
C10_AlternatesInSlot ==
    gw.mod \in {"clean", "diarization"} =>
        /\ \A i \in DOMAIN gw.calls : gw.calls[i][1] = "openai" => i = 1
        /\ \A m \in SeqRange(gw.names) :
              /\ ModelCalls(gw, m) <= 2
              /\ ModelCalls(gw, m) = 2 => gw.stale = m
        /\ (gw.last = "notfound" /\ SlotCalls(gw, "gemini") > 0) =>
              \/ gw.pc = "loop"
              \/ gw.pc = "done" /\ gw.idx = Len(gw.names) /\ gw.res.kind = "raise"
        /\ SlotCalls(gw, "gemini") <= GeminiCallBound(gw)

\* a stale handle answered 404, so did the first candidate, the second answered
C10_Witness ==
    /\ gw.mod = "diarization"
    /\ gw.pc = "done"
    /\ gw.stale # None
    /\ gw.res.kind = "text"
    /\ SlotCalls(gw, "gemini") = 3
    /\ gw.idx = 2

\* C10 (as stated): a 404 in a slot is followed by a call in that same slot
\* while the invocation goes on, and no model is called twice.
C10_EachAlternateOnce ==
    gw.mod = "diarization" =>
        /\ (gw.prim = "notfound" /\ Len(gw.calls) >= 2) => gw.calls[2][1] = "openai"
        /\ \A i, j \in DOMAIN gw.calls : gw.calls[i] = gw.calls[j] => i = j

\* every slot was tried and every candidate of the Gemini slot was called,
\* all failed, and none of the failures was an unclassified one
AllFailed(g) ==
    /\ g.pc = "done"
    /\ g.res.kind = "raise"
    /\ ~g.unclassified
    /\ g.entries = 1
    /\ \A m \in SeqRange(g.names) : ModelCalls(g, m) >= 1

\* C11 (as stated): an invocation in which every slot and every candidate
\* failed with a fallback-class error raises one and the same kind of
\* error, the RuntimeError of "all models failed", whatever the classes of
\* the failures were.
C11_SingleErrorKind ==
    AllFailed(gw) => gw.res.val = "RuntimeError"

\* the exhaustion that does raise the one kind: OpenAI failed with 429 and
\* every Gemini candidate answered 404
C11_ExhaustedWitness ==
    /\ AllFailed(gw)
    /\ gw.prim = "quota"
    /\ gw.names # <<>>
    /\ gw.last = "notfound"
    /\ gw.res = RaiseRes("RuntimeError")

\* C12 (as stated): once a handle of the Gemini slot is memoized, which
\* with OpenAI configured means that an earlier invocation failed in the
\* primary slot and succeeded in the secondary, an invocation makes its
\* first call in the secondary slot.
C12_StickyFallback ==
    (gemini_client[gw.mod] # None /\ Len(gw.calls) = 1 /\ ninv > 1)
        => gw.calls[1][1] = "gemini"

\* the later invocation that does start in the Gemini slot: OpenAI is not
\* configured and the memoized handle answers
C12_MemoWitness ==
    /\ ninv > 1
    /\ ~openai_enabled
    /\ gw.calls = <<<<"gemini", gemini_client[gw.mod]>>>>
    /\ gw.calls[1][2] # gw.names[1]
    /\ gw.res.kind = "text"

(***************************************************************************)
(* Properties of the endpoints (SpecEndpoints)                             *)
(***************************************************************************)
ClientErrors == 400..499

\* the /process-full request in hand had no file, a blank file, or a text
\* of which the cleaning left no sentence
NoContent ==
    /\ probe.fn = "/process-full"
    /\ stage = "Error"
    /\ \/ probe.kind = "none"
       \/ probe.kind = "transcript" /\ Strip(probe.text) = <<>>
       \/ stages = <<"Received", "Error">> /\ sentences = <<>>

\* C15 (as stated): a request without content is answered with a 4xx
\* status on /process-full, /summarize and /extract.
C15_ClientError ==
    /\ NoContent => response.status \in ClientErrors
    /\ (probe.fn \in {"/summarize", "/extract"} /\ Sentences(probe.text) = <<>>
            /\ probe_out # NoProbe)
          => probe_out.status \in ClientErrors

\* /extract and /process-full do answer 400
C15_ExtractWitness ==
    /\ probe.fn = "/extract"
    /\ Sentences(probe.text) = <<>>
    /\ probe_out = HTTPError(400, "No meaningful content found")

(***************************************************************************)
(* Properties of the memoized handle (SpecHandle)                          *)
(***************************************************************************)
Kinds(runs) == {r.kind : r \in runs}

\* C13 (as stated): against one backend behaviour, the call returns text
\* with a memoized handle exactly when it does without one, and a handle
\* that fails costs one call, after which the calls are those made without
\* a handle.
C13_HandleAdvisory ==
    probe_out.fn = "_generate_with_gemini" =>
        /\ Kinds(probe_out.set) = Kinds(probe_out.unset)
        /\ probe.beh[probe.memo] # "ok" =>
              \A r \in probe_out.set :
                 \E u \in probe_out.unset :
                    r.calls = <<<<"gemini", probe.memo>>>> \o u.calls

\* the stale handle: it answers 404, the candidates are then called as they
\* are without a handle, and the second of them answers
C13_StaleWitness ==
    /\ probe_out.fn = "_generate_with_gemini"
    /\ probe.beh[probe.memo] = "notfound"
    /\ Kinds(probe_out.set) = {"text"}
    /\ Kinds(probe_out.unset) = {"text"}
    /\ \E r \in probe_out.set : Len(r.calls) = 3

(***************************************************************************)
(* Properties of the normalizer (SpecNormalize)                            *)
(***************************************************************************)
\* the words of a text, in lower case, each a sequence of pieces
RECURSIVE WordRuns(_, _)
WordRuns(text, run) ==
    LET word == IF run = <<>> THEN <<>> ELSE <<run>>
    IN  IF text = <<>> THEN word
        ELSE IF IsWordTok(Head(text))
        THEN WordRuns(Tail(text), Append(run, Lower(Head(text))))
        ELSE word \o WordRuns(Tail(text), <<>>)

HasFiller(word) == "um" \in SeqRange(word)

\* C16 (as stated): _clean_with_patterns applied to its own result gives
\* that result again.
C16_Idempotent ==
    probe_out.fn = "_clean_with_patterns" => probe_out.twice = probe_out.once

\* a text with a filler between two words on which the second pass changes
\* nothing
C16_StableWitness ==
    /\ probe_out.fn = "_clean_with_patterns"
    /\ probe.text = <<"w", " ", "um", " ", "w">>
    /\ probe_out.once = <<"W", " ", "w", ".">>
    /\ probe_out.twice = probe_out.once

\* C17: the words that hold the filler "um" as a part (as "umw" does) are
\* in the result as they were in the text, in their order, and the filler
\* standing as a word of its own, in any letter case, is not.
C17_WholeWord ==
    probe_out.fn = "_clean_with_patterns" =>
        LET before == WordRuns(probe.text, <<>>)
            after == WordRuns(probe_out.once, <<>>)
        IN  /\ SelectSeq(after, HasFiller)
                  = SelectSeq(before, LAMBDA word : HasFiller(word) /\ word # <<"um">>)
            /\ <<"um">> \notin SeqRange(after)

\* "umw UM": the word stays and the filler in capitals goes
C17_Witness ==
    /\ probe_out.fn = "_clean_with_patterns"
    /\ probe.text = <<"um", "w", " ", "UM">>
    /\ probe_out.once = <<"Um", "w", ".">>

(***************************************************************************)
(* Properties of the task functions (SpecTasks)                            *)
(***************************************************************************)
\* all eight fields are there and none is null
CompleteSummary(d) == \A f \in SummaryFields : f \in DOMAIN d /\ d[f] # "null"

NonEmptyInput ==
    IF task.fn \in {"clean_transcript", "diarize"} THEN task.text # <<>>
    ELSE task.sentences # <<>>

\* C1 (as stated): a call of clean_transcript, diarize, summarize or
\* extract_actions_and_decisions on a non-empty input, in which no backend
\* gave a usable answer, returns the value of the matching deterministic
\* fallback (for summarize: a summary with every field); it never raises.
C1_FallbackNeverRaises ==
    (task.fn # "none" /\ NonEmptyInput /\ ~task.usable) =>
        /\ task.status = "return"
        /\ CASE task.fn = "clean_transcript" ->
                    task_val.val = _clean_with_patterns(task.text)
             [] task.fn = "diarize" ->
                    task_val.val = _diarize_with_patterns(task.text)
             [] task.fn = "extract_actions_and_decisions" ->
                    task_val.val = _extract_with_rules(FullText(task.sentences))
             [] OTHER -> CompleteSummary(task_val.val)

\* the three functions that do fall back: a call whose backends all failed
C1_FallbackWitness ==
    /\ task.fn = "diarize"
    /\ task.text # <<>>
    /\ ~task.answered
    /\ task.status = "return"
    /\ task_val.val = <<Segment("Meeting Transcript", task.text)>>

\* C14 (as stated): a call in which a backend's text could not be parsed
\* as JSON makes at least one more call of _generate_with_llm, and at most
\* max_retries more, before it ends.
C14_RepromptBounded ==
    task.unparsed >= 1 => (task.ngen >= 2 /\ task.ngen <= max_retries + 1)

\* summarize does ask again: three answers, none of them readable
C14_SummarizeWitness ==
    /\ task.fn = "summarize"
    /\ task.unparsed = max_retries + 1
    /\ task.ngen = max_retries + 1
    /\ task.status = "raise"

(***************************************************************************)
(* Properties of /process-full (Spec)                                      *)
(***************************************************************************)
Terminal == {"Done", "Error"}

SuccessKeys ==
    {"status", "transcript", "structured_summary", "action_items", "decisions",
     "diarization"}

\* C2: when no backend call of a request returned text and the raw text,
\* cleaned by the patterns, has a sentence, the request ends in Done with
\* the success response (transcript, structured_summary, action_items,
\* decisions, diarization), never in an error response, and it is never
\* stuck on the way.
C2_DegradedSuccess ==
    (~backend_ok /\ raw_text # <<>>
        /\ Sentences(_clean_with_patterns(raw_text)) # <<>>) =>
        /\ stage # "Error"
        /\ stage # "Done" => ENABLED NextPipeline
        /\ stage = "Done" =>
              /\ response.status = 200
              /\ DOMAIN response = SuccessKeys
              /\ response.transcript = _clean_with_patterns(raw_text)
              /\ response.structured_summary = EmptyDict
              /\ response.diarization = _diarize_with_patterns(cleaned)
              /\ response.action_items = Rules(sentences).actions
              /\ response.decisions = Rules(sentences).decisions

\* a request served with every backend call failing
C2_Witness ==
    /\ stage = "Done"
    /\ ~backend_ok
    /\ (openai_enabled \/ gemini_key)
    /\ transformers_installed
    /\ sumTask.out.status = "raise"
    /\ response.status = 200

\* C3 (as stated): every structured summary that summarize returns, and
\* every structured_summary of a success response of /process-full, has all
\* eight fields, none of them null.
C3_SummaryComplete ==
    /\ (sumTask.st = "done" /\ sumTask.out.status = "return") =>
            CompleteSummary(sumTask.out.val)
    /\ response.status = 200 => CompleteSummary(response.structured_summary)

\* a response whose summary is the complete object a backend wrote
C3_CompleteWitness ==
    /\ response.status = 200
    /\ response.structured_summary = FullSummary

CanonicalStages == <<"Received", "Cleaned", "SummarizingDiarizing", "Extracted", "Done">>

IsPrefix(p, q) == Len(p) <= Len(q) /\ p = SubSeq(q, 1, Len(p))

\* C4: a request goes through Received, Cleaned, SummarizingDiarizing,
\* Extracted, Done in this order (or leaves the order for Error); summarize
\* and diarize exist only once the text is cleaned, summarize on the
\* sentences of the cleaned text and diarize on the cleaned text; extraction
\* is called only when both are done, on the sentences and on the segments
\* of diarize (or [] when it failed).
C4_StageOrder ==
    /\ \/ IsPrefix(stages, CanonicalStages)
       \/ /\ stages # <<>>
          /\ stages[Len(stages)] = "Error"
          /\ IsPrefix(SubSeq(stages, 1, Len(stages) - 1), CanonicalStages)
          /\ Len(stages) <= 4
    /\ stage \in {"Idle", "Received", "Cleaned"} =>
          /\ sumTask.st = "none"
          /\ diaTask.st = "none"
          /\ ~extract_call.called
    /\ (sumTask.st # "none" \/ diaTask.st # "none") =>
          /\ IsPrefix(<<"Received", "Cleaned", "SummarizingDiarizing">>, stages)
          /\ sumTask.arg = Sentences(cleaned)
          /\ diaTask.arg = cleaned
    /\ extract_call.called =>
          /\ sumTask.st = "done"
          /\ diaTask.st = "done"
          /\ extract_call.sentences = Sentences(cleaned)
          /\ extract_call.diarization_data =
                (IF diaTask.out.status = "return" THEN diaTask.out.val ELSE <<>>)
    /\ stage \in {"Extracted", "Done"} => extract_call.called

\* a request that went through every stage, with a cleaned text that is
\* not the raw text
C4_Witness ==
    /\ stage = "Done"
    /\ stages = CanonicalStages
    /\ cleaned # raw_text
    /\ extract_call.called

\* C5: summarize and diarize are handed out together: neither is done
\* before the other has started, and none exists without the other.
C5_BothDispatched ==
    /\ sumTask.st = "done" => diaTask.st \in {"running", "done"}
    /\ diaTask.st = "done" => sumTask.st \in {"running", "done"}
    /\ (sumTask.st = "none") <=> (diaTask.st = "none")
    /\ stage = "SummarizingDiarizing" => (sumTask.st # "none" /\ diaTask.st # "none")

\* both are running at once
C5_Witness ==
    /\ sumTask.st = "running"
    /\ diaTask.st = "running"

\* the value the handler keeps for a task: its result, or the default
Kept(work, default) == IF work.out.status = "raise" THEN default ELSE work.out.val

\* C6: when summarize or diarize fails the other is still running or done
\* with its own result; the handler goes on only when both are done, keeps
\* {} or [] for the one that failed, calls extraction, and a request that
\* reached the two tasks ends in Done with a success response and is never
\* stuck.
C6_FailureIsolated ==
    /\ (sumTask.st = "done" /\ sumTask.out.status = "raise") =>
            diaTask.st \in {"running", "done"}
    /\ (diaTask.st = "done" /\ diaTask.out.status = "raise") =>
            sumTask.st \in {"running", "done"}
    /\ stage \in {"Extracted", "Done"} =>
          /\ sumTask.st = "done" /\ diaTask.st = "done"
          /\ structured_summary = Kept(sumTask, EmptyDict)
          /\ segments = Kept(diaTask, <<>>)
          /\ extract_call.called
          /\ extract_call.diarization_data = segments
    /\ sumTask.st # "none" =>
          /\ stage # "Error"
          /\ stage # "Done" => ENABLED NextPipeline
          /\ stage = "Done" => response.status = 200

\* summarize failed, diarize did not, and the request was served
C6_Witness ==
    /\ stage = "Done"
    /\ sumTask.out.status = "raise"
    /\ diaTask.out.status = "return"
    /\ diaTask.out.val # <<>>
    /\ response.status = 200
    /\ response.structured_summary = EmptyDict
    /\ response.diarization = diaTask.out.val

(***************************************************************************)
(* Properties of the pattern diarizer (SpecDiarize)                        *)
(***************************************************************************)
\* the units whose words a text holds
Words(text) == {k \in 1..MaxUnits : UnitWord(k) \in SeqRange(text)}

\* a text without its white space
NoSpace(text) == SelectSeq(text, LAMBDA tok : ~IsSpace(tok))

\* no speaker label and no name in front of "will": one speaker, unlabelled
Unlabelled(text) ==
    \A k \in DOMAIN text : text[k] \notin Labels \cup CapitalizedWords

Diarized == probe_out.fn = "_diarize_with_patterns"

\* C18: for a transcript with one speaker and no speaker labels, whatever
\* the number of its sentences, the pattern diarizer returns exactly one
\* segment, under the sentinel label, whose text is the whole transcript up
\* to white space.
C18_OneSegment ==
    (Diarized /\ Unlabelled(probe.text) /\ probe.text # <<>>) =>
        /\ Len(probe_out.segments) = 1
        /\ probe_out.segments[1].speaker = "Meeting Transcript"
        /\ NoSpace(probe_out.segments[1].text) = NoSpace(probe.text)

\* an unlabelled transcript of several sentences that comes back whole
C18_FewSentencesWitness ==
    /\ Diarized /\ Unlabelled(probe.text)
    /\ Cardinality(Words(probe.text)) = 5
    /\ probe_out.segments = <<Segment("Meeting Transcript", probe.text)>>

\* C19: the segment texts of the pattern diarizer together hold every
\* sentence and line of the transcript, those of the "Unknown" speaker
\* included.
C19_NothingDropped ==
    Diarized =>
        \A k \in Words(probe.text) :
            \E i \in DOMAIN probe_out.segments : k \in Words(probe_out.segments[i].text)

\* a sentence of the "Unknown" speaker that is kept, next to a named one
C19_UnknownKeptWitness ==
    /\ Diarized
    /\ Len(probe_out.segments) = 2
    /\ probe_out.segments[1].speaker = "Unknown"
    /\ probe_out.segments[2].speaker = "Ann"
    /\ Words(probe.text) = Words(probe_out.segments[1].text) \cup Words(probe_out.segments[2].text)

LastCall(g) == g.calls[Len(g.calls)]

C29_KeptWitness ==
    /\ gw.pc = "done"
    /\ Len(gw.calls) >= 1
    /\ LastCall(gw) = <<"gemini", gemini_client[gw.mod]>>
    /\ gw.last = "transient"
    /\ gw.stale = None
    /\ gw.idx = 1

(***************************************************************************)
(* Properties of summarize on cut answers (SpecTasks)                      *)
(***************************************************************************)
\* C26: when every answer of a call of summarize was cut (none ended with
\* "}"), the call made all its attempts and either returns a dict that
\* json.loads read from the closed text of the last answer, or raises
\* RuntimeError, its error for output that cannot be read; it returns no
\* text and no value of its own making.
C26_ParsedOrRaised ==
    (task.fn = "summarize" /\ task.ngen >= 1 /\ task.truncated = task.ngen) =>
        /\ task.ngen = max_retries + 1
        /\ task.unparsed = task.ngen
        /\ \/ task.status = "return" /\ task_val.val \in PartialSummaries
           \/ /\ task.status = "raise" /\ task_val.exc = "RuntimeError"
              /\ task_val.val = EmptyDict

\* three cut answers, the last one closed into JSON and returned
C26_RepairedWitness ==
    /\ task.fn = "summarize"
    /\ task.truncated = max_retries + 1
    /\ task.status = "return"
    /\ task_val.val \in PartialSummaries \ {EmptyDict}

\* three cut answers, the last one beyond repair
C26_RaisedWitness ==
    /\ task.fn = "summarize"
    /\ task.truncated = max_retries + 1
    /\ task.status = "raise"

(***************************************************************************)
(* Properties of the attempts of summarize (SpecTasks)                     *)
(***************************************************************************)
\* the attempts of the call that ended last at which the text did not end
\* with "}"
CutAttempts ==
    {i \in DOMAIN task.trail : task.trail[i] \in {"reprompt", "repaired", "unrepairable"}}

\* C31: a call of summarize calls _generate_with_llm at most
\* max_retries + 1 = 3 times, once per attempt, and every call ends: it
\* returns a value json.loads gave or it raises.  An answer that does not
\* end with "}" on one of the first max_retries attempts is answered by
\* the next attempt with json.loads not called; only the last attempt
\* closes such an answer and hands it to json.loads.
C31_BoundedAttempts ==
    /\ summarize(<<>>, gemini_client["summarization"], openai_enabled, gemini_key) # {}
    /\ task.fn = "summarize" =>
          /\ task.ngen \in 1..(max_retries + 1)
          /\ Len(task.trail) = task.ngen
          /\ \/ task.status = "return" /\ task_val.val \in PartialSummaries \cup {FullSummary}
             \/ task.status = "raise"
          /\ Cardinality(CutAttempts) = task.truncated
          /\ \A i \in CutAttempts :
                IF i <= max_retries
                THEN task.trail[i] = "reprompt" /\ i < task.ngen
                ELSE task.trail[i] # "reprompt" /\ i = max_retries + 1

\* two cut answers asked again, the third closed and read
C31_Witness ==
    /\ task.fn = "summarize"
    /\ task.trail = <<"reprompt", "reprompt", "repaired">>
    /\ task.ngen = max_retries + 1
    /\ task.status = "return"

\* C32: in summarize an attempt at which _generate_with_llm raised
\* RuntimeError, or gave an empty text, is the last one of the call, which
\* raises RuntimeError; an attempt at which it raised another exception is
\* followed by the next attempt as long as attempt < max_retries, and ends
\* the call with RuntimeError at attempt = max_retries.
C32_RuntimeErrorEnds ==
    task.fn = "summarize" =>
        \A i \in DOMAIN task.trail :
            /\ task.trail[i] \in {"raise_runtime", "empty"} =>
                  /\ i = task.ngen
                  /\ task.status = "raise" /\ task_val.exc = "RuntimeError"
            /\ task.trail[i] = "raise_other" =>
                  IF i <= max_retries THEN i < task.ngen
                  ELSE /\ i = task.ngen
                       /\ task.status = "raise" /\ task_val.exc = "RuntimeError"

\* an exception that is no RuntimeError at the first attempt, an empty
\* text at the second, which ends the call
C32_Witness ==
    /\ task.fn = "summarize"
    /\ task.trail = <<"raise_other", "empty">>
    /\ task.status = "raise"

\* RuntimeError at the first attempt: one call of _generate_with_llm
C32_RuntimeWitness ==
    /\ task.fn = "summarize"
    /\ task.trail = <<"raise_runtime">>
    /\ task.ngen = 1

\* three attempts, each ended by an exception that is no RuntimeError
C32_ExhaustedWitness ==
    /\ task.fn = "summarize"
    /\ task.trail = <<"raise_other", "raise_other", "raise_other">>
    /\ task.status = "raise"

(***************************************************************************)
(* Properties of the closing of a cut answer (SpecAttempt)                 *)
(***************************************************************************)
\* the last attempt of summarize on an answer that did not end with "}"
LastAttemptCut ==
    /\ probe_out # NoProbe /\ probe_out.fn = "summarize"
    /\ probe.attempt = max_retries
    /\ probe_out.cut

\* C33 (as stated): at the last attempt of summarize the text handed to
\* json.loads, made from an answer that did not end with "}", ends with "}".
C33_HandedEndsWithBrace ==
    LastAttemptCut => EndsWith(probe_out.handed, "}")

\* an answer with a "}" that is not its first character and text after it:
\* json.loads gets the lines as they were, the cut at the "}" is not in them
C33_NotClosedWitness ==
    /\ LastAttemptCut
    /\ probe.text = "a}a"
    /\ probe_out.handed = "a}a"

\* an answer that stops inside a string, with no "}": the string is closed
\* and a line "}" is added
C33_AppendedWitness ==
    /\ LastAttemptCut
    /\ probe.text = "{\"a"
    /\ probe_out.handed = "{\"a\"\n}"

(***************************************************************************)
(* Properties of clean_transcript on an answer (SpecCleanReply)            *)
(***************************************************************************)
CleanReplyDone == probe_out # NoProbe /\ probe_out.fn = "clean_transcript"

\* C34: when clean_transcript returns the backend's text, that text, with
\* its code fence removed, is not empty and at most 1.5 times as long as
\* the transcript; in every other case (a longer or an empty text, an
\* exception of the backend) it returns _clean_with_patterns(text).
C34_BackendTextOrPatterns ==
    CleanReplyDone =>
        IF probe_out.usable
        THEN /\ probe.res.kind = "text"
             /\ probe_out.val = CodeBlockRemoved(StrStrip(probe.res.val))
             /\ probe_out.val # ""
             /\ 2 * Len(probe_out.val) <= 3 * Len(Concat(probe.text))
        ELSE probe_out.val = Concat(_clean_with_patterns(probe.text))

\* an answer in a code fence, returned without the fence
C34_Witness ==
    /\ CleanReplyDone
    /\ probe.text = <<"um", "w">>
    /\ probe.res = TextRes("~~~\na")
    /\ probe_out.usable
    /\ probe_out.val = "a"

\* an answer that is too long: the patterns' text is returned
C34_TooLongWitness ==
    /\ CleanReplyDone
    /\ probe.text = <<"w">>
    /\ probe.res = TextRes("aa")
    /\ ~probe_out.usable
    /\ probe_out.val = "W."

\* an answer that is only a fence: the patterns' text is returned
C34_FenceOnlyWitness ==
    /\ CleanReplyDone
    /\ probe.text = <<"w">>
    /\ probe.res = TextRes("~~~a")
    /\ ~probe_out.usable

(***************************************************************************)
(* Properties of the letters' case in _clean_with_patterns (SpecNormalize) *)
(***************************************************************************)
\* the text came out with the letters it went in with, from its first
\* character on, whatever their case: no word was taken out of it
SameLetters ==
    /\ probe_out # NoProbe /\ probe_out.fn = "_clean_with_patterns"
    /\ Len(Concat(probe_out.once)) >= Len(Concat(probe.text))
    /\ str_lower(SubSeq(Concat(probe_out.once), 1, Len(Concat(probe.text))))
          = str_lower(Concat(probe.text))

\* C35 (as stated): _clean_with_patterns changes the case of the first
\* letter of a sentence fragment only, so a capital letter of a kept word
\* is a capital letter in the result.
C35_CapitalsStay ==
    SameLetters =>
        \A i \in 1..Len(Concat(probe.text)) :
            At(Concat(probe.text), i) \in Uppers =>
                At(Concat(probe_out.once), i) \in Uppers

\* the word "wUM" comes out as "Wum": capitalize() made its other letters
\* small
C35_LoweredWitness ==
    /\ SameLetters
    /\ probe.text = <<"w", "UM">>
    /\ Concat(probe_out.once) = "Wum."

(***************************************************************************)
(* Properties of the chunks of _diarize_with_patterns (SpecChunk)          *)
(***************************************************************************)
\* a transcript of more than five sentences, none with a speaker, diarized
Chunked ==
    /\ probe_out # NoProbe /\ probe_out.fn = "_diarize_with_patterns"
    /\ probe.n > 5

\* the sentences of the segments j, j + 1, ..., one after the other
RECURSIVE SegmentSentences(_, _)
SegmentSentences(segs, j) ==
    IF j > Len(segs) THEN <<>>
    ELSE SplitSentences(segs[j].text, <<>>) \o SegmentSentences(segs, j + 1)

\* C36: for a text of n > 5 sentences in which no speaker is found,
\* _diarize_with_patterns returns ceil(n / c) segments, c = max(3, n // 5),
\* named "Speaker 1", "Speaker 2", ... in this order; each holds at least
\* one and at most c sentences, and the sentences of the segments, one
\* segment after the other, are the n sentences of the text in their order.
C36_ChunksCoverInOrder ==
    Chunked =>
        LET c == Max(3, probe.n \div 5)
            k == Len(probe_out.segments)
        IN  /\ (k - 1) * c < probe.n /\ probe.n <= k * c
            /\ \A j \in 1..k :
                  /\ probe_out.segments[j].speaker = "Speaker " \o ToString(j)
                  /\ Len(SplitSentences(probe_out.segments[j].text, <<>>)) \in 1..c
            /\ SegmentSentences(probe_out.segments, 1)
                  = [i \in 1..probe.n |-> <<UnitWord(i)>>]

\* twenty-one sentences: five chunks of four and one of one
C36_Witness ==
    /\ Chunked
    /\ probe.n = 21
    /\ Len(probe_out.segments) = 6
    /\ probe_out.segments[6] = Segment("Speaker 6", <<"w21">>)
    /\ probe_out.segments[1].text = <<"w1", ".", " ", "w2", ".", " ", "w3", ".", " ", "w4">>

(***************************************************************************)
(* Properties of requests and calls without content (Spec)                 *)
(***************************************************************************)
\* the latest request to /process-full came without a file, or with a
\* file whose text is empty or white space only
WithoutContent ==
    /\ probe # NoProbe /\ probe.fn = "/process-full"
    /\ \/ probe.kind = "none"
       \/ probe.kind = "transcript" /\ \A i \in DOMAIN probe.text : IsSpace(probe.text[i])

\* C37: clean_transcript("") returns "" and diarize("") returns [], each
\* without a call of _generate_with_llm, whatever the backends are; and a
\* request to /process-full without a file, or with an empty or blank
\* text, is answered with status 400 at once: it goes through no other
\* stage, so that clean_transcript, summarize, diarize and
\* extract_actions_and_decisions are not called for it.
C37_NoContentNoCall ==
    /\ clean_transcript(<<>>, gemini_client["clean"], openai_enabled, gemini_key)
          = {Returned(<<>>, gemini_client["clean"], FALSE, FALSE, 0)}
    /\ diarize(<<>>, gemini_client["diarization"], openai_enabled, gemini_key)
          = {Returned(<<>>, gemini_client["diarization"], FALSE, FALSE, 0)}
    /\ WithoutContent =>
          /\ stages = <<"Error">>
          /\ response.status = 400
          /\ cleaned = <<>> /\ sentences = <<>>
          /\ sumTask = NoWork /\ diaTask = NoWork
          /\ extract_call = NoCall
          /\ ~backend_ok

\* a file of white space only, rejected
C37_Witness ==
    /\ WithoutContent
    /\ probe.kind = "transcript"
    /\ probe.text = BlankText
    /\ stage = "Error"
    /\ response = HTTPError(400, "No content found in the uploaded file")

(***************************************************************************)
(* Properties of transcribe_audio (SpecStt)                                *)
(***************************************************************************)
SttRunning == probe_out # NoProbe /\ probe_out.fn = "transcribe_audio"

\* C27: transcribe_audio never returns an empty string: it makes at most
\* max_attempts polls, a 200 with a blank body leaves the call polling, and
\* the call, which can always go on until it has ended, ends with a
\* transcript that is not blank or with a ValueError, whatever went wrong
\* (the timeout after the last poll included).
C27_TranscriptOrError ==
    SttRunning =>
        /\ probe_out.polls <= max_attempts
        /\ probe_out.pc # "done" => ENABLED NextStt
        /\ (probe_out.last[1] = "200" /\ Strip(probe_out.last[2]) = <<>>) =>
              (probe_out.pc = "poll" \/ probe_out.exc = "ValueError")
        /\ probe_out.status = "return" =>
              /\ probe_out.val # <<>>
              /\ probe_out.val = Strip(probe_out.last[2])
        /\ probe_out.status = "raise" => probe_out.exc = "ValueError"
        /\ probe_out.pc = "done" <=> probe_out.status \in {"return", "raise"}

\* the call that timed out after max_attempts polls, the last one blank
C27_TimeoutWitness ==
    /\ SttRunning
    /\ probe_out.polls = max_attempts
    /\ probe_out.last = <<"200", <<" ">>>>
    /\ probe_out.status = "raise"

\* a transcript returned by a late poll
C27_TranscriptWitness ==
    /\ SttRunning
    /\ probe_out.polls = max_attempts
    /\ probe_out.status = "return"
    /\ probe_out.val = <<"w">>

(***************************************************************************)
(* Properties of two concurrent invocations (SpecThreads)                  *)
(***************************************************************************)
\* C30: an invocation that found _gemini_client not None, and has not made
\* its call through it yet, finds it not None when it makes the call:
\* the other invocation cannot clear it in between.
C30_CheckedHandleStays ==
    probe_out.fn = "threads" =>
        \A t \in Threads :
            probe_out.inv[t].pc = "memo" => gemini_client[probe.mod] # None

\* both invocations are past the check, the handle still in place
C30_BothCheckedWitness ==
    /\ probe_out.fn = "threads"
    /\ \A t \in Threads : probe_out.inv[t].pc = "memo"
    /\ gemini_client[probe.mod] # None

\* the invocation that lost the handle after its check: it made no call and
\* raised, while the other one went on to the list of models
C30_LostHandleWitness ==
    /\ probe_out.fn = "threads"
    /\ \E t \in Threads :
          /\ probe_out.inv[t].pc = "done"
          /\ probe_out.inv[t].calls = <<>>
          /\ probe_out.inv[t].idx = 1
          /\ probe_out.inv[t].res = RaiseRes("RuntimeError")
          /\ \E u \in Threads \ {t} : probe_out.inv[u].stale # None

(***************************************************************************)
(* Properties of extract_actions_and_decisions (SpecExtract)               *)
(***************************************************************************)
ExtractDone == probe_out.fn = "extract_actions_and_decisions"

\* the items that the local model's JSON gives after validation, and the
\* items of the rules, for the call of the probe
ProbeValidated == ValidTable[probe.reply]
ProbeRules == RuleTable[probe.sentences]
\* the call took the generative path: the items of the JSON are in the result
Generative == ExtractDone /\ probe_out.out.usable

C24_MinimumLengths ==
    ExtractDone =>
        LET a == probe_out.out.val.actions
            d == probe_out.out.val.decisions
        IN  /\ \A i \in DOMAIN a : Len(a[i].description) >= 5
            /\ \A i \in DOMAIN d : Len(d[i].text) >= 10

\* the JSON had descriptions of 4 and of 5 characters and texts of 9 and of
\* 10 characters; the result has the longer ones
C24_Witness ==
    /\ Generative
    /\ \E i \in DOMAIN probe.reply.action_items :
          probe.reply.action_items[i].description.str = "send"
    /\ \E i \in DOMAIN probe.reply.decisions :
          probe.reply.decisions[i].text.str = " Q4 budget "
    /\ \E i \in DOMAIN probe_out.out.val.actions :
          probe_out.out.val.actions[i].description = "draft"
    /\ \E i \in DOMAIN probe_out.out.val.decisions :
          probe_out.out.val.decisions[i].text = "decided to"

\* C25: when the validated JSON has fewer than 3 action items or fewer than
\* 2 decisions, each list returned starts with the validated items of the
\* JSON, unchanged and in their order, and what follows are items of the
\* rules, each with a key that no item before it in the list has.
C25_AugmentedNotReplaced ==
    (Generative /\ (Len(ProbeValidated.action_items) < 3
                        \/ Len(ProbeValidated.decisions) < 2)) =>
        LET a == probe_out.out.val.actions
            d == probe_out.out.val.decisions
            na == Len(ProbeValidated.action_items)
            nd == Len(ProbeValidated.decisions)
        IN  /\ Len(a) >= na /\ SubSeq(a, 1, na) = ProbeValidated.action_items
            /\ Len(d) >= nd /\ SubSeq(d, 1, nd) = ProbeValidated.decisions
            /\ \A i \in (na + 1)..Len(a) :
                  /\ \E k \in DOMAIN ProbeRules.actions : ProbeRules.actions[k] = a[i]
                  /\ \A j \in 1..(i - 1) : ActionKey(a[j]) # ActionKey(a[i])
            /\ \A i \in (nd + 1)..Len(d) :
                  /\ \E k \in DOMAIN ProbeRules.decisions : ProbeRules.decisions[k] = d[i]
                  /\ \A j \in 1..(i - 1) : DecisionKey(d[j]) # DecisionKey(d[i])

\* two items of the JSON, an action item of the rules left out for its key
\* and another one added after them
C25_Witness ==
    /\ Generative
    /\ Len(ProbeValidated.action_items) = 2
    /\ Len(ProbeRules.actions) = 2
    /\ Len(probe_out.out.val.actions) = 3
    /\ SubSeq(probe_out.out.val.actions, 1, 2) = ProbeValidated.action_items
    /\ probe_out.out.val.actions[3] = ProbeRules.actions[2]

\* the request for the example transcript served with no backend configured
\* and the transformers library not installed
ExampleServed ==
    /\ stage = "Done"
    /\ raw_text = ExampleTranscript
    /\ ~openai_enabled /\ ~gemini_key /\ ~transformers_installed

\* C28 (as stated): with all generative backends disabled, the response of
\* /process-full for the example transcript is a success with exactly two
\* action items, of the owners "HR" and "Finance" and the due dates
\* "October 15" and "October 20", and with no decisions.
C28_ExampleTwoItems ==
    ExampleServed =>
        /\ response.status = 200
        /\ Len(response.action_items) = 2
        /\ response.action_items[1].owner = "HR"
        /\ response.action_items[1].due_date = "October 15"
        /\ response.action_items[2].owner = "Finance"
        /\ response.action_items[2].due_date = "October 20"
        /\ response.decisions = <<>>

\* the example served: the success response with no decisions and the one
\* action item that the rules find in the cleaned text
C28_ExampleWitness ==
    /\ ExampleServed
    /\ response.status = 200
    /\ response.transcript = _clean_with_patterns(ExampleTranscript)
    /\ response.decisions = <<>>
    /\ response.action_items =
          <<ActionItem("draft the remote work policy", "Hr", "october 15", None)>>

====
